---- MODULE Spec2Model ----
(***************************************************************************)
(* Model of the vulnerability dashboard client (csv-vuln-vista).           *)
(*                                                                         *)
(* State: the backend's rows, the findings held by the useVulnerabilities  *)
(* hook, its filter criteria, the page-local filter/sort state of the      *)
(* owner, assignee and SLA views, and the position of a bulk retest.       *)
(* The filtered list, the groups and the SLA tallies are useMemo values:   *)
(* pure functions of that state, written here as operators.                *)
(***************************************************************************)
EXTENDS Integers, Sequences, FiniteSets, TLC

VARIABLES
    page,             \* the route whose page component is mounted
    backend,          \* rows the backend answers GET /vulnerabilities with
    vulnerabilities,  \* useVulnerabilities: vulnerabilities state
    loading,          \* useVulnerabilities: loading state
    error,            \* useVulnerabilities: error state ("null" = no error)
    filters,          \* useVulnerabilities: filters state (FilterOptions)
    pendingLoads,     \* loadData calls awaiting apiService.get
    ownerFilters,     \* BusinessOwnersDashboard: filters state
    sortBy,           \* AssignedToView: sortBy state
    tableSelection,   \* VulnerabilityTable: the selected rows (their positions in the list)
    cfBackend,        \* rows the backend answers GET /api/cloudflare/vulnerabilities with
    cfVulnerabilities,\* CloudflareDashboard: vulnerabilities state
    cfLoading,        \* CloudflareDashboard: loading state
    cfError,          \* CloudflareDashboard: error state ("null" = no error)
    cfSummary,        \* CloudflareDashboard: summary state
    cfSelectedRows,   \* CloudflareDashboard: selectedRows state (row keys)
    cfPending,        \* fetchData calls awaiting the backend
    cfFilters,        \* CloudflareDashboard: filters state (server-side; None = {})
    cfSearchTerm,     \* CloudflareDashboard: searchTerm state
    currentPage,      \* usePagination: currentPage state
    retestDialog,     \* CloudflareDashboard: retest dialog state (results, total, ...)
    runs,             \* retest handlers of the dashboard that have not returned yet
    retest,           \* a bulkRetest call: service, items, position, responses, results
    authToken,        \* localStorage item 'authToken' (None: absent)
    location,         \* window.location.href (path)
    sessionValid,     \* backend: whether it still accepts the token it issued
    inFlight,         \* requests sent through apiService and not yet answered
    lastStatus,       \* outcome of the latest response apiService handled
    flow              \* the handler started by the latest user action, and what it sent

vars == <<page, backend, vulnerabilities, loading, error, filters, pendingLoads,
          ownerFilters, sortBy, tableSelection, cfBackend, cfVulnerabilities, cfLoading,
          cfError, cfSummary, cfSelectedRows, cfPending, cfFilters, cfSearchTerm,
          currentPage, retestDialog, runs, retest,
          authToken, location, sessionValid, inFlight, lastStatus, flow>>

(***************************************************************************)
(* Bounds of the model.                                                    *)
(***************************************************************************)
MaxFindings == 2        \* rows in the backend of the filter page
MaxGroupFindings == 3   \* rows in the backend of the grouping views
MaxSlaFindings == 2     \* rows in the backend of the SLA tracker
MaxRetest == 3          \* findings selected for a bulk retest
MaxPending == 2         \* overlapping loads in flight

(***************************************************************************)
(* Text.  A JavaScript string is an atom here; Chars gives its characters, *)
(* so that toLowerCase, trim, join and includes are computed, not assumed. *)
(***************************************************************************)
UpperChars == <<"A","B","C","D","E","F","G","H","I","J","K","L","M",
                "N","O","P","Q","R","S","T","U","V","W","X","Y","Z">>
LowerChars == <<"a","b","c","d","e","f","g","h","i","j","k","l","m",
                "n","o","p","q","r","s","t","u","v","w","x","y","z">>

Chars ==
    ("" :> <<>>)
 @@ ("Critical" :> <<"C","r","i","t","i","c","a","l">>)
 @@ ("critical" :> <<"c","r","i","t","i","c","a","l">>)
 @@ ("High" :> <<"H","i","g","h">>)
 @@ ("high" :> <<"h","i","g","h">>)
 @@ ("Medium" :> <<"M","e","d","i","u","m">>)
 @@ ("medium" :> <<"m","e","d","i","u","m">>)
 @@ ("Low" :> <<"L","o","w">>)
 @@ ("low" :> <<"l","o","w">>)
 @@ ("Info" :> <<"I","n","f","o">>)
 @@ ("info" :> <<"i","n","f","o">>)
 @@ ("Unknown" :> <<"U","n","k","n","o","w","n">>)
 @@ ("unknown" :> <<"u","n","k","n","o","w","n">>)
 @@ ("FIXED" :> <<"F","I","X","E","D">>)
 @@ ("accepted risk" :> <<"a","c","c","e","p","t","e","d"," ","r","i","s","k">>)
 @@ ("work in progress" :> <<"w","o","r","k"," ","i","n"," ","p","r","o","g","r","e","s","s">>)
 @@ ("Open" :> <<"O","p","e","n">>)
 @@ ("open" :> <<"o","p","e","n">>)
 @@ ("In Progress" :> <<"I","n"," ","P","r","o","g","r","e","s","s">>)
 @@ ("Triaged" :> <<"T","r","i","a","g","e","d">>)
 @@ ("Fixed" :> <<"F","i","x","e","d">>)
 @@ ("fixed" :> <<"f","i","x","e","d">>)
 @@ ("Resolved" :> <<"R","e","s","o","l","v","e","d">>)
 @@ ("Closed" :> <<"C","l","o","s","e","d">>)
 @@ ("Unassigned" :> <<"U","n","a","s","s","i","g","n","e","d">>)
 @@ ("XSS" :> <<"X","S","S">>)
 @@ ("h1" :> <<"h","1">>)
 @@ ("h2" :> <<"h","2">>)
 @@ ("SQLi" :> <<"S","Q","L","i">>)
 @@ ("CSRF" :> <<"C","S","R","F">>)
 @@ ("SSRF" :> <<"S","S","R","F">>)
 @@ ("RCE" :> <<"R","C","E">>)
 @@ ("LFI" :> <<"L","F","I">>)
 @@ ("IDOR" :> <<"I","D","O","R">>)
 @@ ("H2" :> <<"H","2">>)
 @@ ("amy" :> <<"a","m","y">>)
 @@ ("bob" :> <<"b","o","b">>)
 @@ ("Ops" :> <<"O","p","s">>)
 @@ ("Web" :> <<"W","e","b">>)
 @@ ("Amy" :> <<"A","m","y">>)
 @@ (" Amy " :> <<" ","A","m","y"," ">>)
 @@ ("Op" :> <<"O","p">>)
 @@ ("W" :> <<"W">>)
 @@ (" " :> <<" ">>)
 @@ ("AMY" :> <<"A","M","Y">>)
 @@ (" XSS" :> <<" ","X","S","S">>)
 @@ ("Accepted Risk" :> <<"A","c","c","e","p","t","e","d"," ","R","i","s","k">>)
 @@ ("Work in Progress" :> <<"W","o","r","k"," ","i","n"," ","P","r","o","g","r","e","s","s">>)
 @@ ("False Positive" :> <<"F","a","l","s","e"," ","P","o","s","i","t","i","v","e">>)

\* String.prototype.toLowerCase, one character
LowerChar(c) ==
    IF \E i \in 1..Len(UpperChars) : UpperChars[i] = c
    THEN LowerChars[CHOOSE i \in 1..Len(UpperChars) : UpperChars[i] = c]
    ELSE c

\* String.prototype.toLowerCase
ToLowerCase(cs) == [i \in 1..Len(cs) |-> LowerChar(cs[i])]

\* String.prototype.trim
RECURSIVE Trim(_)
Trim(cs) ==
    IF cs = <<>> THEN cs
    ELSE IF Head(cs) = " " THEN Trim(Tail(cs))
    ELSE IF cs[Len(cs)] = " " THEN Trim(SubSeq(cs, 1, Len(cs) - 1))
    ELSE cs

\* String.prototype.includes
Includes(hay, needle) ==
    \E i \in 0..(Len(hay) - Len(needle)) :
        SubSeq(hay, i + 1, i + Len(needle)) = needle

\* Array.prototype.join(' ') over an array of character sequences
RECURSIVE JoinSpace(_)
JoinSpace(parts) ==
    IF parts = <<>> THEN <<>>
    ELSE IF Len(parts) = 1 THEN parts[1]
    ELSE parts[1] \o <<" ">> \o JoinSpace(Tail(parts))

\* s.toLowerCase() === t for atoms s and a lower-case literal t
LowerEq(s, t) == ToLowerCase(Chars[s]) = Chars[t]

(***************************************************************************)
(* Sequences.                                                              *)
(***************************************************************************)
\* every sequence over S of length at most n
SeqsUpTo(S, n) == UNION {[1..k -> S] : k \in 0..n}

\* number of positions of s that satisfy P
Count(s, P(_)) == Cardinality({i \in DOMAIN s : P(s[i])})

\* Array.prototype.map: the mapped array, every element computed once
MapSeq(s, F(_)) == [i \in DOMAIN s |-> F(s[i])] \o <<>>

\* the elements of s, as a set
Range(s) == {s[i] : i \in DOMAIN s}

(***************************************************************************)
(* CSVService.loadVulnerabilities: the transformation of the rows of       *)
(* GET /vulnerabilities.  A missing (undefined, null, empty) field of a    *)
(* row is "" here, which is falsy as in JavaScript.                        *)
(***************************************************************************)
\* x || d
OrElse(x, d) == IF x = "" THEN d ELSE x

\* the numbers a row's days_overdue text can denote in the model
DayValues == {-1, 0, 1, 2, 5, 6, 7, 8, 23, 24, 30, 31, 72, 90, 91, 144, 180, 181}

\* Number(x) || 0: the number a numeric text denotes, 0 for "" and for NaN
NumberOrZero(x) ==
    IF \E n \in DayValues : ToString(n) = x
    THEN CHOOSE n \in DayValues : ToString(n) = x
    ELSE 0

\* one row mapped to a Vulnerability (the callback of data.map)
TransformRow(vuln, index) ==
    [ id          |-> <<vuln.name, vuln.host, index>>,
      name        |-> OrElse(vuln.name, ""),
      description |-> OrElse(vuln.description, ""),
      host        |-> OrElse(vuln.host, ""),
      owner       |-> OrElse(vuln.owner, ""),
      port        |-> OrElse(vuln.port, ""),
      severity    |-> OrElse(vuln.severity, "Low"),
      status      |-> OrElse(vuln.status, "Open"),
      assigned_to |-> OrElse(vuln.assigned_to, ""),
      comments    |-> OrElse(vuln.comments, ""),
      timestamp   |-> OrElse(vuln.timestamp, ""),
      days_overdue |-> NumberOrZero(vuln.days_overdue) ]

\* .filter(v => v.name && v.host)
HasNameAndHost(v) == v.name # "" /\ v.host # ""

LoadVulnerabilities(data) ==
    SelectSeq([i \in DOMAIN data |-> TransformRow(data[i], i - 1)] \o <<>>, HasNameAndHost)

(***************************************************************************)
(* useVulnerabilities: filteredVulnerabilities.                            *)
(***************************************************************************)
\* A Date is <<t>> with t its time value (in days); Invalid Date is <<>>.
\* An unset dateRange bound (undefined) is <<>> as well: it is only tested
\* for truthiness.
None == <<>>
InvalidDate == <<>>

\* the ISO strings the model's rows carry, with their time values (in days)
IsoTime == ("2024-01-01" :> <<1>>) @@ ("2024-01-02" :> <<2>>) @@ ("2024-01-03" :> <<3>>)

\* date-fns parseISO: a Date, Invalid Date for a string that is no ISO date
ParseISO(ts) == IF ts \in DOMAIN IsoTime THEN IsoTime[ts] ELSE InvalidDate

\* a < b and a > b on Dates: false as soon as one side is Invalid Date (NaN)
DateLess(a, b) == a # InvalidDate /\ b # InvalidDate /\ a[1] < b[1]
DateGreater(a, b) == a # InvalidDate /\ b # InvalidDate /\ a[1] > b[1]

\* date-fns isWithinInterval for an interval of valid dates with start <= end
\* (the only intervals SetFilters produces): time >= start && time <= end
IsWithinInterval(date, start, end) ==
    date # InvalidDate /\ date[1] >= start[1] /\ date[1] <= end[1]

\* the date range block of the filter callback: TRUE = not rejected
DateRangePasses(vuln, range) ==
    IF range.start # None \/ range.end # None
    THEN LET vulnDate == ParseISO(vuln.timestamp) IN
         IF range.start # None /\ range.end # None
         THEN IsWithinInterval(vulnDate, range.start, range.end)
         ELSE IF range.start # None /\ DateLess(vulnDate, range.start) THEN FALSE
         ELSE IF range.end # None /\ DateGreater(vulnDate, range.end) THEN FALSE
         ELSE TRUE
    ELSE TRUE

\* filters.searchTerm?.toLowerCase().trim()
SearchTermOf(f) == Trim(ToLowerCase(Chars[f.searchTerm]))

\* a searchable content that leaves the comments out
SearchableContent_WithoutComments(vuln) ==
    ToLowerCase(JoinSpace(<<Chars[vuln.name], Chars[vuln.description], Chars[vuln.host],
                            Chars[vuln.port], Chars[vuln.severity], Chars[vuln.status],
                            Chars[vuln.assigned_to]>>))

\* [name, description, host, port, severity, status, assigned_to, comments]
\*   .join(' ').toLowerCase()
SearchableContent(vuln) ==
    ToLowerCase(JoinSpace(<<Chars[vuln.name], Chars[vuln.description], Chars[vuln.host],
                            Chars[vuln.port], Chars[vuln.severity], Chars[vuln.status],
                            Chars[vuln.assigned_to], Chars[vuln.comments]>>))

\* the search block of the filter callback: TRUE = not rejected
SearchPasses(vuln, f) ==
    LET searchTerm == SearchTermOf(f) IN
    IF searchTerm # <<>> THEN Includes(SearchableContent(vuln), searchTerm) ELSE TRUE

\* mutant of SeverityPasses: an empty list matches nothing
SeverityPasses_EmptyMatchesNothing(vuln, f) == vuln.severity \in f.severity

\* the list-valued blocks of the filter callback
SeverityPasses(vuln, f) == ~(f.severity # {} /\ vuln.severity \notin f.severity)
StatusPasses(vuln, f) == ~(f.status # {} /\ vuln.status \notin f.status)
AssigneePasses(vuln, f) == ~(f.assigned_to # {} /\ vuln.assigned_to \notin f.assigned_to)
HostPasses(vuln, f) == ~(f.host # {} /\ vuln.host \notin f.host)

\* hasFilters
HasFilters(f) ==
    \/ f.severity # {} \/ f.status # {} \/ f.assigned_to # {} \/ f.host # {}
    \/ f.dateRange.start # None \/ f.dateRange.end # None
    \/ SearchTermOf(f) # <<>>

\* the callback of vulnerabilities.filter
FilterKeeps(vuln, f) ==
    /\ SeverityPasses(vuln, f)
    /\ StatusPasses(vuln, f)
    /\ AssigneePasses(vuln, f)
    /\ HostPasses(vuln, f)
    /\ DateRangePasses(vuln, f.dateRange)
    /\ SearchPasses(vuln, f)

\* filter(F, C)
Filter(F, f) ==
    IF ~HasFilters(f) THEN F
    ELSE SelectSeq(F, LAMBDA vuln : FilterKeeps(vuln, f))

filteredVulnerabilities == Filter(vulnerabilities, filters)

(***************************************************************************)
(* Initial values of the state (the useState initialisers).                *)
(***************************************************************************)
EmptyFilters ==
    [ severity |-> {}, status |-> {}, assigned_to |-> {}, host |-> {},
      dateRange |-> [start |-> None, end |-> None], searchTerm |-> "" ]

EmptyOwnerFilters == [ searchTerm |-> "", severity |-> {}, status |-> {} ]

\* the retest dialog before any retest: closed, nothing to show
NoRetestDialog ==
    [ open |-> FALSE, results |-> <<>>, isRetesting |-> FALSE, total |-> 0,
      completed |-> 0 ]

NoRetest ==
    [ service |-> "none", items |-> <<>>, pos |-> 0, calls |-> <<>>, results |-> <<>>,
      pc |-> "idle" ]

HookInit ==
    /\ vulnerabilities = <<>>
    /\ loading = TRUE
    /\ error = "null"
    /\ filters = EmptyFilters
    /\ pendingLoads = 0

PageInit ==
    /\ ownerFilters = EmptyOwnerFilters
    /\ sortBy = "workload"
    /\ tableSelection = {}

CloudflareInit ==
    /\ cfVulnerabilities = <<>>
    /\ cfLoading = TRUE
    /\ cfError = "null"
    /\ cfSummary = None
    /\ cfSelectedRows = {}
    /\ cfPending = 0
    /\ cfFilters = None
    /\ cfSearchTerm = ""
    /\ currentPage = 1
    /\ retestDialog = NoRetestDialog
    /\ runs = <<>>

hookVars == <<vulnerabilities, loading, error, filters, pendingLoads>>
pageVars == <<ownerFilters, sortBy, tableSelection>>
cfViewVars == <<cfFilters, cfSearchTerm, currentPage, retestDialog, runs>>
cfVars == <<cfBackend, cfVulnerabilities, cfLoading, cfError, cfSummary, cfSelectedRows,
            cfPending, cfViewVars>>

\* the pages that mount useVulnerabilities
UsesHook == page \in {"findings", "hosts", "owners", "assignees", "sla"}

\* the token the login page stored
Jwt == <<"jwt">>

\* no handler has been started yet
NoFlow ==
    [ kind |-> "none", pc |-> "idle", items |-> <<>>, pos |-> 0, sent |-> <<>>,
      results |-> <<>>, mutated |-> FALSE, selectedRows |-> {} ]

\* a logged-in session (PrivateRoute lets the pages render only with a token)
ApiInit ==
    /\ authToken = Jwt
    /\ location = "/"
    /\ sessionValid = TRUE
    /\ inFlight = <<>>
    /\ lastStatus = "none"
    /\ flow = NoFlow

(***************************************************************************)
(* ApiService: getHeaders, request, handleResponse.  A request in flight   *)
(* is [method, endpoint, target, auth]: auth is the Authorization header   *)
(* (None: no header).  The backend answers 401 to a request without a      *)
(* token it accepts; any other request gets 200, an HTTP error (500) or    *)
(* no answer at all (fetch rejects: "network").                            *)
(***************************************************************************)
apiVars == <<authToken, location, sessionValid, inFlight, lastStatus>>

\* getHeaders: Authorization is set only if localStorage holds a token
GetHeaders(token) == IF token = None THEN None ELSE token

\* request: one fetch with the headers of the moment
ApiRequest(method, endpoint, target) ==
    [ method |-> method, endpoint |-> endpoint, target |-> target,
      auth |-> GetHeaders(authToken) ]

\* the backend refuses the request (HTTP 401)
Unauthorized(request) == request.auth = None \/ ~sessionValid

\* what can come back for a request
ResponseKinds(request) ==
    IF Unauthorized(request) THEN {"401"} ELSE {"200", "500", "network"}

\* handleResponse / fetch: does the promise reject
Rejects(kind) == kind # "200"

\* a handleResponse that redirects on 401 but leaves the token in localStorage
HandleResponse_KeepsToken(kind) ==
    /\ lastStatus' = kind
    /\ authToken' = authToken
    /\ location' = IF kind = "401" THEN "/login" ELSE location
    /\ UNCHANGED sessionValid

\* handleResponse, on 401: localStorage.removeItem('authToken');
\* window.location.href = '/login'
HandleResponse(kind) ==
    /\ lastStatus' = kind
    /\ authToken' = IF kind = "401" THEN None ELSE authToken
    /\ location' = IF kind = "401" THEN "/login" ELSE location
    /\ UNCHANGED sessionValid

\* the error handleResponse or fetch rejects with
ResponseError(kind) ==
    CASE kind = "401" -> [ name |-> "Error", message |-> <<"Authentication required">> ]
      [] kind = "500" -> [ name |-> "Error", message |-> <<"HTTP error! status: 500">> ]
      [] OTHER -> [ name |-> "TypeError", message |-> <<"Failed to fetch">> ]

\* the requests in flight to an endpoint (their positions)
Pending(endpoint) == { i \in DOMAIN inFlight : inFlight[i].endpoint = endpoint }

\* the oldest request in flight to an endpoint
Oldest(endpoint) == CHOOSE i \in Pending(endpoint) : \A j \in Pending(endpoint) : i <= j

\* s without its element at position i
Remove(s, i) == SubSeq(s, 1, i - 1) \o SubSeq(s, i + 1, Len(s))

\* the backend stops accepting the token (it expired, or was revoked)
SessionExpires ==
    /\ sessionValid
    /\ sessionValid' = FALSE
    /\ UNCHANGED <<page, backend, hookVars, pageVars, cfVars, retest,
                   authToken, location, inFlight, lastStatus, flow>>

(***************************************************************************)
(* useVulnerabilities: loadData, setFilters.                               *)
(***************************************************************************)
\* GET /vulnerabilities, as CSVService.loadVulnerabilities sends it
LoadRequest == ApiRequest("GET", "/vulnerabilities", None)

\* a handler that only loads: loadData started by the mount effect or by refresh
LoadFlow(request) ==
    [ NoFlow EXCEPT !.kind = "load", !.pc = "loading", !.sent = <<request>> ]

\* the flow once a load has been answered: over, unless another load is in flight
AfterLoad(f, left) ==
    IF f.pc = "loading" /\ left = 0 THEN [ f EXCEPT !.pc = "done" ] ELSE f

\* loadData up to its await (mount effect, refresh): setLoading(true); setError(null).
\* While loading is set, and while an error is, the page shows a loader or the
\* error in place of its table: the table is unmounted and its selection gone.
LoadStart ==
    /\ UsesHook
    /\ location # "/login"
    /\ pendingLoads < MaxPending
    /\ loading' = TRUE
    /\ error' = "null"
    /\ pendingLoads' = pendingLoads + 1
    /\ inFlight' = Append(inFlight, LoadRequest)
    /\ flow' = LoadFlow(LoadRequest)
    /\ tableSelection' = {}
    /\ UNCHANGED <<page, backend, vulnerabilities, filters, ownerFilters, sortBy, cfVars, retest,
                   authToken, location, sessionValid, lastStatus>>

\* the mount effect, useEffect(() => { loadData() }, []): runs once
Mount ==
    /\ loading /\ pendingLoads = 0 /\ flow.kind = "none"
    /\ LoadStart

\* refresh: loadData called again by the page
Refresh ==
    /\ flow.kind # "none" /\ flow.pc \in {"loading", "done"}
    /\ LoadStart

\* loadData after its await resolved: setVulnerabilities(data); finally setLoading(false)
LoadOk ==
    /\ pendingLoads > 0
    /\ Pending("/vulnerabilities") # {}
    /\ "200" \in ResponseKinds(inFlight[Oldest("/vulnerabilities")])
    /\ vulnerabilities' = LoadVulnerabilities(backend)
    /\ loading' = FALSE
    /\ pendingLoads' = pendingLoads - 1
    /\ inFlight' = Remove(inFlight, Oldest("/vulnerabilities"))
    /\ HandleResponse("200")
    /\ flow' = AfterLoad(flow, pendingLoads - 1)
    /\ UNCHANGED <<page, backend, error, filters, pageVars, cfVars, retest>>

\* a loadData whose catch sends the request again
LoadFail_Retries ==
    /\ pendingLoads > 0
    /\ Pending("/vulnerabilities") # {}
    /\ \E kind \in ResponseKinds(inFlight[Oldest("/vulnerabilities")]) :
         /\ Rejects(kind)
         /\ HandleResponse(kind)
    /\ error' = "Failed to load vulnerabilities"
    /\ inFlight' = Append(Remove(inFlight, Oldest("/vulnerabilities")), LoadRequest)
    /\ flow' = [ flow EXCEPT !.sent = Append(@, LoadRequest) ]
    /\ tableSelection' = {}
    /\ UNCHANGED <<page, backend, vulnerabilities, loading, filters, pendingLoads,
                   ownerFilters, sortBy, cfVars, retest>>

\* loadData after its await rejected: setError(message); finally setLoading(false)
LoadFail ==
    /\ pendingLoads > 0
    /\ Pending("/vulnerabilities") # {}
    /\ \E kind \in ResponseKinds(inFlight[Oldest("/vulnerabilities")]) :
         /\ Rejects(kind)
         /\ HandleResponse(kind)
    /\ error' = "Failed to load vulnerabilities"
    /\ loading' = FALSE
    /\ pendingLoads' = pendingLoads - 1
    /\ inFlight' = Remove(inFlight, Oldest("/vulnerabilities"))
    /\ flow' = AfterLoad(flow, pendingLoads - 1)
    /\ tableSelection' = {}
    /\ UNCHANGED <<page, backend, vulnerabilities, filters, ownerFilters, sortBy, cfVars, retest>>

\* the values the filter panel offers for each axis in the model
Times == {<<2>>}
SeverityChoices == {{}, {"Critical"}}
StatusChoices == {{}, {"Open"}}
AssigneeChoices == {{}, {"amy"}}
HostChoices == {{}, {"h1"}}
SearchChoices == {"", " Amy "}
DateRangeChoices ==
    { r \in [start : {None} \cup Times, end : {None} \cup Times] :
        (r.start # None /\ r.end # None) => r.start[1] <= r.end[1] }

\* setFilters({...filters, axis: value}): the panel changes one axis at a time
SetFiltersTo(f) ==
    /\ filters' = f
    /\ UNCHANGED <<page, backend, vulnerabilities, loading, error, pendingLoads,
                   pageVars, cfVars, retest, apiVars, flow>>

SetSeverity == \E x \in SeverityChoices : SetFiltersTo([filters EXCEPT !.severity = x])
SetStatus == \E x \in StatusChoices : SetFiltersTo([filters EXCEPT !.status = x])
SetAssignee == \E x \in AssigneeChoices : SetFiltersTo([filters EXCEPT !.assigned_to = x])
SetHost == \E x \in HostChoices : SetFiltersTo([filters EXCEPT !.host = x])
SetDateRange == \E x \in DateRangeChoices : SetFiltersTo([filters EXCEPT !.dateRange = x])
SetSearchTerm == \E x \in SearchChoices : SetFiltersTo([filters EXCEPT !.searchTerm = x])

(***************************************************************************)
(* The findings page (ConsolidatedFindings, HostBasedVulnerabilities):     *)
(* the hook with its filter panel.                                         *)
(***************************************************************************)
\* a backend row; the fields the model does not vary are missing
Row(name, host, owner, severity, status, assigned_to, timestamp, days_overdue) ==
    [ name |-> name, description |-> "", host |-> host, owner |-> owner, port |-> "",
      severity |-> severity, status |-> status, assigned_to |-> assigned_to,
      comments |-> "", timestamp |-> timestamp, days_overdue |-> days_overdue ]

\* the rows of the findings page: a base row and rows that differ from it in
\* one field each, plus one that differs in all
FilterRows ==
    { Row("XSS", "h1", "", "Critical", "Open", "amy", "2024-01-02", ""),
      Row("XSS", "h2", "", "Critical", "Open", "amy", "2024-01-02", ""),
      Row("XSS", "h1", "", "Low", "Open", "amy", "2024-01-02", ""),
      Row("XSS", "h1", "", "Critical", "Fixed", "amy", "2024-01-02", ""),
      Row("XSS", "h1", "", "Critical", "Open", "", "2024-01-02", ""),
      Row("XSS", "h1", "", "Critical", "Open", "amy", "2024-01-01", ""),
      Row("XSS", "h1", "", "Critical", "Open", "amy", "2024-01-03", ""),
      Row("XSS", "h1", "", "Critical", "Open", "amy", "", ""),
      Row("XSS", "h2", "", "Low", "Fixed", "", "", "") }

InitFilter ==
    /\ page = "findings"
    /\ backend \in SeqsUpTo(FilterRows, MaxFindings)
    /\ HookInit /\ PageInit /\ CloudflareInit /\ ApiInit
    /\ cfBackend = <<>>
    /\ retest = NoRetest

NextFilter ==
    \/ Mount \/ LoadOk \/ LoadFail
    \/ SetSeverity \/ SetStatus \/ SetAssignee \/ SetHost \/ SetDateRange \/ SetSearchTerm

SpecFilter == InitFilter /\ [][NextFilter]_vars

(***************************************************************************)
(* Claims about the filter (checked under SpecFilter).                     *)
(***************************************************************************)
\* what the contract asks of each axis of the criteria
AxisSeverity(v, f) == f.severity = {} \/ v.severity \in f.severity
AxisStatus(v, f) == f.status = {} \/ v.status \in f.status
AxisAssignee(v, f) == f.assigned_to = {} \/ v.assigned_to \in f.assigned_to
AxisHost(v, f) == f.host = {} \/ v.host \in f.host
DateConstraintActive(f) == f.dateRange.start # None \/ f.dateRange.end # None
TimestampInRange(v, f) ==
    LET t == ParseISO(v.timestamp) IN
    /\ t # InvalidDate
    /\ (f.dateRange.start # None => t[1] >= f.dateRange.start[1])
    /\ (f.dateRange.end # None => t[1] <= f.dateRange.end[1])
AxisDate(v, f) == DateConstraintActive(f) => TimestampInRange(v, f)
AxisSearch(v, f) ==
    SearchTermOf(f) = <<>> \/ Includes(SearchableContent(v), SearchTermOf(f))
SatisfiesEveryAxis(v, f) ==
    /\ AxisSeverity(v, f) /\ AxisStatus(v, f) /\ AxisAssignee(v, f)
    /\ AxisHost(v, f) /\ AxisDate(v, f) /\ AxisSearch(v, f)

\* C1: filter(F, C) is exactly the findings of F, in order, that satisfy every
\* non-empty axis of C (severity, status, assignee, host, date range, search).
C1_FilterIsExact ==
    filteredVulnerabilities =
        SelectSeq(vulnerabilities, LAMBDA v : SatisfiesEveryAxis(v, filters))

\* C4: with a date constraint set, every retained finding has a timestamp
\* that parses and lies within the inclusive range (fail-closed).
C4_DateFailClosed ==
    DateConstraintActive(filters) =>
        \A i \in DOMAIN filteredVulnerabilities :
            TimestampInRange(filteredVulnerabilities[i], filters)

\* the values of one field over the findings in memory
FieldValues(field) == {vulnerabilities[i][field] : i \in DOMAIN vulnerabilities}
NoConstraint(f) ==
    /\ f.severity = {} /\ f.status = {} /\ f.assigned_to = {} /\ f.host = {}
    /\ f.dateRange.start = None /\ f.dateRange.end = None
    /\ f.searchTerm = ""

\* C9: with no constraint set the filter is the identity, and an axis given
\* as an empty list restricts nothing: the result is the one obtained with
\* the axis listing every value that occurs, whatever the other axes are.
C9_EmptyMeansNoRestriction ==
    /\ NoConstraint(filters) => filteredVulnerabilities = vulnerabilities
    /\ \A axis \in {"severity", "status", "assigned_to", "host"} :
          filters[axis] = {} =>
              filteredVulnerabilities =
                  Filter(vulnerabilities, [filters EXCEPT ![axis] = FieldValues(axis)])

\* C9 witness: findings are loaded, the severity axis is empty while another
\* axis is active, and the filter keeps some findings and drops others.
C9_Witness ==
    /\ filters.severity = {} /\ filters.status # {}
    /\ Len(filteredVulnerabilities) > 0
    /\ Len(filteredVulnerabilities) < Len(vulnerabilities)

(***************************************************************************)
(* Grouping helpers shared by the host, assignee and owner views.          *)
(***************************************************************************)
\* the distinct keys of s in order of first occurrence: the order in which
\* Object.entries / Map.values list keys that are not integer-like
KeysInOrder(s, Key(_)) ==
    LET firsts == {i \in DOMAIN s : \A j \in 1..(i - 1) : Key(s[j]) # Key(s[i])}
        Nth(k) == CHOOSE i \in firsts : Cardinality({j \in firsts : j < i}) = k - 1
    IN [k \in 1..Cardinality(firsts) |-> Key(s[Nth(k)])] \o <<>>

\* the reduce that collects the members of each key, in input order
MembersOf(s, Key(_), k) == SelectSeq(s, LAMBDA v : Key(v) = k)

\* Array.prototype.sort((a, b) => Rank(b) - Rank(a)): descending and stable
\* (an element goes after every element of higher rank and after the
\* elements of equal rank that preceded it)
SortDesc(s, Rank(_)) ==
    LET rank == MapSeq(s, Rank)
        Pos(i) == 1 + Cardinality({j \in DOMAIN s :
                        \/ rank[j] > rank[i]
                        \/ (rank[j] = rank[i] /\ j < i)})
    IN [k \in DOMAIN s |-> s[CHOOSE i \in DOMAIN s : Pos(i) = k]] \o <<>>

\* mutant of RoundPercent: Math.floor in place of Math.round
RoundPercent_Floor(num, den) == (100 * num) \div den

\* Math.round(num / den * 100) for num >= 0, den > 0 (half rounds up)
RoundPercent(num, den) == (200 * num + den) \div (2 * den)

\* total > 0 ? Math.round((part / total) * 100) : 0
Rate(part, total) == IF total > 0 THEN RoundPercent(part, total) ELSE 0

(***************************************************************************)
(* useVulnerabilities: hostGroups.                                         *)
(***************************************************************************)
HostKey(vuln) == vuln.host

\* one entry of the map over Object.entries(grouped)
HostGroup(host, vulns) ==
    [ host |-> host,
      vulnerabilities |-> vulns,
      count |-> Len(vulns),
      criticalCount |-> Count(vulns, LAMBDA v : LowerEq(v.severity, "critical")),
      highCount |-> Count(vulns, LAMBDA v : LowerEq(v.severity, "high")),
      mediumCount |-> Count(vulns, LAMBDA v : LowerEq(v.severity, "medium")),
      lowCount |-> Count(vulns, LAMBDA v : LowerEq(v.severity, "low")) ]

\* aPriority / bPriority of the sort callback
HostPriority(g) ==
    g.criticalCount * 1000 + g.highCount * 100 + g.mediumCount * 10 + g.lowCount

\* a reduce in which each finding replaces its host's list (acc[host] = [vuln])
HostMembers_KeepsLastOnly(filtered, host) ==
    LET all == SelectSeq(filtered, LAMBDA v : HostKey(v) = host) IN
    IF all = <<>> THEN all ELSE <<all[Len(all)]>>

\* acc[vuln.host] after the reduce: the findings of the host, in input order
HostMembers(filtered, host) == MembersOf(filtered, HostKey, host)

HostGroupsOf(filtered) ==
    LET keys == KeysInOrder(filtered, HostKey) IN
    SortDesc(MapSeq(keys, LAMBDA k : HostGroup(k, HostMembers(filtered, k))),
             HostPriority)

hostGroups == HostGroupsOf(filteredVulnerabilities)

(***************************************************************************)
(* AssignedToView: assigneeMetrics.                                        *)
(***************************************************************************)
\* a key without the sentinel: the findings without assignee are keyed ''
AssigneeKey_NoSentinel(vuln) == vuln.assigned_to

\* vuln.assigned_to || 'Unassigned'
AssigneeKey(vuln) == OrElse(vuln.assigned_to, "Unassigned")

\* one entry of the map over Object.entries(grouped)
AssigneeMetric(assignee, vulns) ==
    LET total == Len(vulns)
        closed == Count(vulns, LAMBDA v : v.status = "Closed" \/ v.status = "Resolved")
    IN
    [ assignee |-> assignee,
      vulnerabilities |-> vulns,
      total |-> total,
      open |-> Count(vulns, LAMBDA v : v.status = "Open" \/ v.status = "In Progress"),
      closed |-> closed,
      overdue |-> Count(vulns, LAMBDA v : v.days_overdue > 0),
      critical |-> Count(vulns, LAMBDA v : LowerEq(v.severity, "critical")),
      high |-> Count(vulns, LAMBDA v : LowerEq(v.severity, "high")),
      medium |-> Count(vulns, LAMBDA v : LowerEq(v.severity, "medium")),
      low |-> Count(vulns, LAMBDA v : LowerEq(v.severity, "low")),
      info |-> Count(vulns, LAMBDA v : LowerEq(v.severity, "info")),
      completionRate |-> Rate(closed, total) ]

\* a sort callback that ignores sortBy
AssigneeRank_AlwaysTotal(m, by) == m.total

\* the key of metrics.sort for each sortBy
AssigneeRank(m, by) ==
    IF by = "overdue" THEN m.overdue
    ELSE IF by = "completion" THEN m.completionRate
    ELSE m.total

AssigneeMetricsOf(filtered, by) ==
    LET keys == KeysInOrder(filtered, AssigneeKey) IN
    SortDesc(MapSeq(keys, LAMBDA k : AssigneeMetric(k, MembersOf(filtered, AssigneeKey, k))),
             LAMBDA m : AssigneeRank(m, by))

assigneeMetrics == AssigneeMetricsOf(filteredVulnerabilities, sortBy)

(***************************************************************************)
(* BusinessOwnersDashboard: ownerData, summary.                            *)
(***************************************************************************)
\* host.split(':')[0]
RECURSIVE BeforeColon(_)
BeforeColon(cs) ==
    IF cs = <<>> \/ Head(cs) = ":" THEN <<>>
    ELSE <<Head(cs)>> \o BeforeColon(Tail(cs))

\* the "Apply filters" block of ownerData
OwnerSearchPasses(v, f) ==
    IF f.searchTerm # ""
    THEN LET search == ToLowerCase(Chars[f.searchTerm]) IN
         \/ Includes(ToLowerCase(Chars[v.owner]), search)
         \/ Includes(ToLowerCase(Chars[v.host]), search)
    ELSE TRUE

OwnerFiltered(filtered, f) ==
    LET bySearch == SelectSeq(filtered, LAMBDA v : OwnerSearchPasses(v, f))
        bySeverity == IF f.severity # {}
                      THEN SelectSeq(bySearch, LAMBDA v : v.severity \in f.severity)
                      ELSE bySearch
    IN IF f.status # {}
       THEN SelectSeq(bySeverity, LAMBDA v : v.status \in f.status)
       ELSE bySeverity

\* vuln.owner || 'Unassigned'
OwnerKey(vuln) == OrElse(vuln.owner, "Unassigned")

\* the ownerStats of one key after the forEach, with fixRate added by the map
OwnerStats(owner, vulns) ==
    LET total == Len(vulns)
        fixed == Count(vulns, LAMBDA v : ~LowerEq(v.status, "open") /\ LowerEq(v.status, "fixed"))
    IN
    [ owner |-> owner,
      totalFindings |-> total,
      openFindings |-> Count(vulns, LAMBDA v : LowerEq(v.status, "open")),
      fixedFindings |-> fixed,
      criticalCount |-> Count(vulns, LAMBDA v : LowerEq(v.severity, "critical")),
      highCount |-> Count(vulns, LAMBDA v : LowerEq(v.severity, "high")),
      mediumCount |-> Count(vulns, LAMBDA v : LowerEq(v.severity, "medium")),
      lowCount |-> Count(vulns, LAMBDA v : LowerEq(v.severity, "low")),
      hosts |-> {BeforeColon(Chars[vulns[i].host]) : i \in DOMAIN vulns},
      vulnerabilities |-> vulns,
      fixRate |-> Rate(fixed, total) ]

OwnerTotal(o) == o.totalFindings

OwnerDataOf(filtered, f) ==
    LET vulns == OwnerFiltered(filtered, f)
        keys == KeysInOrder(vulns, OwnerKey)
    IN SortDesc(MapSeq(keys, LAMBDA k : OwnerStats(k, MembersOf(vulns, OwnerKey, k))),
                OwnerTotal)

ownerData == OwnerDataOf(filteredVulnerabilities, ownerFilters)

\* Array.prototype.reduce((sum, o) => sum + Field(o), 0)
RECURSIVE Sum(_)
Sum(ns) == IF ns = <<>> THEN 0 ELSE Head(ns) + Sum(Tail(ns))
SumOver(s, Field(_)) == Sum(MapSeq(s, Field))

\* summary of the dashboard: the same rate over all groups
OwnerSummaryOf(data) ==
    LET totalFixed == SumOver(data, LAMBDA o : o.fixedFindings)
        totalFindings == SumOver(data, LAMBDA o : o.totalFindings)
    IN
    [ totalOwners |-> Count(data, LAMBDA o : o.owner # "Unassigned"),
      unassignedFindings |-> SumOver(SelectSeq(data, LAMBDA o : o.owner = "Unassigned"),
                                     LAMBDA o : o.totalFindings),
      totalFixed |-> totalFixed,
      fixRate |-> Rate(totalFixed, totalFindings) ]

ownerSummary == OwnerSummaryOf(ownerData)

(***************************************************************************)
(* OwnerInsights: riskyOwners.                                             *)
(***************************************************************************)
\* a score that adds the three counts without weights
RiskScore_Unweighted(o) == o.criticalCount + o.highCount + o.openFindings

\* (o.criticalCount * 10) + (o.highCount * 5) + o.openFindings
RiskScore(o) == (o.criticalCount * 10) + (o.highCount * 5) + o.openFindings

\* the number of owners slice(0, 3) keeps
TopRiskyCount == 3

\* ownerData.filter(o => o.owner !== 'Unassigned').map(o => ({...o, riskScore}))
\*   .sort((a, b) => b.riskScore - a.riskScore).slice(0, 3)
RiskyOwnersOf(data) ==
    LET scored == MapSeq(SelectSeq(data, LAMBDA o : o.owner # "Unassigned"),
                         LAMBDA o : [ owner |-> o.owner, criticalCount |-> o.criticalCount,
                                      highCount |-> o.highCount,
                                      openFindings |-> o.openFindings,
                                      riskScore |-> RiskScore(o) ])
        sorted == SortDesc(scored, LAMBDA o : o.riskScore)
    IN SubSeq(sorted, 1, IF Len(sorted) < TopRiskyCount THEN Len(sorted) ELSE TopRiskyCount)

riskyOwners == RiskyOwnersOf(ownerData)

(***************************************************************************)
(* SlaTracker: slaThresholds, slaMetrics, getSlaStatus.                    *)
(***************************************************************************)
slaThresholds ==
    ("Critical" :> 1) @@ ("High" :> 7) @@ ("Medium" :> 30) @@ ("Low" :> 90) @@ ("Info" :> 180)

\* slaThresholds[v.severity] || 30
SlaThreshold(v) ==
    IF v.severity \in DOMAIN slaThresholds THEN slaThresholds[v.severity] ELSE 30

\* days >= threshold * 0.8 (0.8 * t is exact or above 4t/5 by less than 1e-15
\* for the thresholds used; days is an integer)
AtLeast80Percent(days, threshold) == 5 * days >= 4 * threshold

\* the callbacks of the two filters of slaMetrics
IsBreached(v) == v.days_overdue > SlaThreshold(v)
IsAtRisk(v) ==
    /\ v.days_overdue > 0
    /\ v.days_overdue <= SlaThreshold(v)
    /\ AtLeast80Percent(v.days_overdue, SlaThreshold(v))

\* vuln.assigned_to || 'Unassigned' in the reduce over breached
BreachAssignee(vuln) == OrElse(vuln.assigned_to, "Unassigned")

\* Object.entries(assigneeBreaches): an [assignee, count] pair for each key, in
\* the order the reduce added the keys
AssigneeBreachesOf(breached) ==
    MapSeq(KeysInOrder(breached, BreachAssignee),
           LAMBDA k : <<k, Len(MembersOf(breached, BreachAssignee, k))>>)

\* the number of entries slice(0, 5) keeps
TopBreachCount == 5

\* entries cut to the first five in the order of the reduce, without the sort
TopBreachesOf_Unsorted(entries) ==
    SubSeq(entries, 1, IF Len(entries) < TopBreachCount THEN Len(entries) ELSE TopBreachCount)

\* .sort(([,a], [,b]) => b - a).slice(0, 5)
TopBreachesOf(entries) ==
    SubSeq(SortDesc(entries, LAMBDA e : e[2]), 1,
           IF Len(entries) < TopBreachCount THEN Len(entries) ELSE TopBreachCount)

SlaMetricsOf(filtered) ==
    LET breached == SelectSeq(filtered, IsBreached)
        atRisk == SelectSeq(filtered, IsAtRisk)
    IN
    [ totalBreached |-> Len(breached),
      atRisk |-> Len(atRisk),
      criticalBreached |-> Count(breached, LAMBDA v : v.severity = "Critical"),
      highBreached |-> Count(breached, LAMBDA v : v.severity = "High"),
      topBreaches |-> TopBreachesOf(AssigneeBreachesOf(breached)) ]

\* the assigneeBreaches object inside slaMetrics
assigneeBreaches == AssigneeBreachesOf(SelectSeq(filteredVulnerabilities, IsBreached))

slaMetrics == SlaMetricsOf(filteredVulnerabilities)

\* mutant of GetSlaStatus: breached from the threshold on (>= for >)
GetSlaStatus_BreachedAtThreshold(vuln) ==
    IF vuln.days_overdue >= SlaThreshold(vuln) THEN "breached"
    ELSE IF AtLeast80Percent(vuln.days_overdue, SlaThreshold(vuln)) THEN "at-risk"
    ELSE "on-track"

\* getSlaStatus(vuln).status
GetSlaStatus(vuln) ==
    IF vuln.days_overdue > SlaThreshold(vuln) THEN "breached"
    ELSE IF AtLeast80Percent(vuln.days_overdue, SlaThreshold(vuln)) THEN "at-risk"
    ELSE "on-track"

(***************************************************************************)
(* The grouping views: HostBasedVulnerabilities ("hosts"),                 *)
(* BusinessOwnersDashboard ("owners"), AssignedToView ("assignees") and    *)
(* SlaTracker ("sla").  Each mounts its own useVulnerabilities; only the   *)
(* hosts page hands setFilters to a filter panel.                          *)
(***************************************************************************)
HostRows ==
    { Row("XSS", h, "", sev, "Open", "", "", "") :
        h \in {"h1", "h2"}, sev \in {"Critical", "high", "Low", "Info"} }

OwnerRows ==
    { Row("XSS", "h1", o, x[1], x[2], "", "", x[3]) :
        o \in {"", "Ops"},
        x \in { <<"Critical", "Open", "2">>, <<"Low", "Fixed", "0">>,
                <<"Critical", "Resolved", "0">> } }

AssigneeRows ==
    { Row("XSS", "h1", "", "High", x[1], a, "", x[2]) :
        a \in {"", "amy"},
        x \in { <<"Open", "2">>, <<"Closed", "0">>, <<"Fixed", "0">>, <<"Triaged", "2">> } }

\* days_overdue around the threshold and around 80% of it, for each severity
SlaRows ==
    { Row("XSS", "h1", "", x[1], "Open", "", "", ToString(x[2])) :
        x \in ({"Critical"} \X {-1, 0, 1, 2}) \cup ({"High"} \X {5, 6, 7, 8})
            \cup ({"Medium"} \X {23, 24, 30, 31}) \cup ({"Low"} \X {72, 90, 91})
            \cup ({"Info"} \X {144, 180, 181}) \cup ({"Unknown"} \X {23, 24, 30, 31}) }

InitGroups ==
    /\ \/ page = "hosts" /\ backend \in SeqsUpTo(HostRows, MaxGroupFindings)
       \/ page = "owners" /\ backend \in SeqsUpTo(OwnerRows, MaxGroupFindings)
       \/ page = "assignees" /\ backend \in SeqsUpTo(AssigneeRows, MaxGroupFindings)
       \/ page = "sla" /\ backend \in SeqsUpTo(SlaRows, MaxSlaFindings)
    /\ HookInit /\ PageInit /\ CloudflareInit /\ ApiInit
    /\ cfBackend = <<>>
    /\ retest = NoRetest

\* the filter panel of the hosts page (severity axis)
HostsSetSeverity == page = "hosts" /\ SetSeverity

\* OwnerFilters: setFilters of the dashboard's own filters state
SetOwnerFiltersTo(f) ==
    /\ page = "owners"
    /\ ownerFilters' = f
    /\ UNCHANGED <<page, backend, hookVars, sortBy, tableSelection, cfVars, retest, apiVars, flow>>

\* current.includes(x) ? current.filter(s => s !== x) : [...current, x]
Toggle(current, x) == IF x \in current THEN current \ {x} ELSE current \cup {x}

OwnerToggleSeverity ==
    \E x \in {"Critical"} :
        SetOwnerFiltersTo([ownerFilters EXCEPT !.severity = Toggle(@, x)])
OwnerToggleStatus ==
    \E x \in {"Open", "Fixed"} :
        SetOwnerFiltersTo([ownerFilters EXCEPT !.status = Toggle(@, x)])
OwnerSetSearch ==
    \E x \in {"", "Op"} : SetOwnerFiltersTo([ownerFilters EXCEPT !.searchTerm = x])
OwnerResetFilters == SetOwnerFiltersTo(EmptyOwnerFilters)

\* AssignedToView: setSortBy
SetSortBy ==
    /\ page = "assignees"
    /\ \E by \in {"workload", "overdue", "completion"} : sortBy' = by
    /\ UNCHANGED <<page, backend, hookVars, ownerFilters, tableSelection, cfVars, retest, apiVars,
                   flow>>

NextGroups ==
    \/ Mount \/ LoadOk \/ LoadFail
    \/ HostsSetSeverity
    \/ OwnerToggleSeverity \/ OwnerToggleStatus \/ OwnerSetSearch \/ OwnerResetFilters
    \/ SetSortBy

SpecGroups == InitGroups /\ [][NextGroups]_vars

(***************************************************************************)
(* Claims about the groups and the SLA classes (checked under SpecGroups). *)
(***************************************************************************)
\* groups (given by their member lists and counts) partition base exactly
Partitions(members, counts, base) ==
    /\ Sum(counts) = Len(base)
    /\ \A g \in DOMAIN members : counts[g] = Len(members[g])
    /\ \A g \in DOMAIN members : \A j \in DOMAIN members[g] :
          \E i \in DOMAIN base : base[i] = members[g][j]
    /\ \A i \in DOMAIN base :
          Sum(MapSeq(members, LAMBDA ms : Count(ms, LAMBDA v : v = base[i]))) = 1

\* C2: for the host, assignee and owner groupings the groups partition the
\* filtered set: every filtered finding is in exactly one group and the
\* groups' counts add up to the number of filtered findings.
C2_GroupsPartitionFiltered ==
    LET filtered == filteredVulnerabilities
        hosts == HostGroupsOf(filtered)
        assignees == AssigneeMetricsOf(filtered, sortBy)
        ownerSet == OwnerFiltered(filtered, ownerFilters)
        owners == OwnerDataOf(filtered, ownerFilters)
    IN
    /\ Partitions(MapSeq(hosts, LAMBDA g : g.vulnerabilities),
                  MapSeq(hosts, LAMBDA g : g.count), filtered)
    /\ Partitions(MapSeq(assignees, LAMBDA g : g.vulnerabilities),
                  MapSeq(assignees, LAMBDA g : g.total), filtered)
    /\ Partitions(MapSeq(owners, LAMBDA g : g.vulnerabilities),
                  MapSeq(owners, LAMBDA g : g.totalFindings), ownerSet)

\* C2 witness: the owner view shows two groups over three findings that
\* passed an active filter which dropped none or some of the loaded ones.
C2_Witness ==
    /\ page = "owners" /\ ownerFilters.status # {}
    /\ Len(vulnerabilities) = 3
    /\ LET owners == ownerData IN
       /\ Len(owners) = 2
       /\ owners[1].totalFindings = 2 /\ owners[2].totalFindings = 1

IsOpenStatus(st) == st \in {"Open", "In Progress", "Triaged"}
IsFixedOrClosedStatus(st) == st \in {"Fixed", "Resolved", "Closed"}

\* C6: in every group the open count is the number of members with status
\* Open, In Progress or Triaged, the fixed/closed count the number with status
\* Fixed, Resolved or Closed, and the overdue count the number with
\* days_overdue > 0; the group of scenario 1 has total 2, criticalCount 1,
\* lowCount 1, openFindings 1, fixedFindings 1, fixRate 50.
C6_GroupCounts ==
    LET owners == ownerData
        assignees == assigneeMetrics
    IN
    /\ \A g \in DOMAIN owners :
          LET o == owners[g] IN
          /\ o.openFindings = Count(o.vulnerabilities, LAMBDA v : IsOpenStatus(v.status))
          /\ o.fixedFindings =
                 Count(o.vulnerabilities, LAMBDA v : IsFixedOrClosedStatus(v.status))
    /\ \A g \in DOMAIN assignees :
          LET m == assignees[g] IN
          /\ m.open = Count(m.vulnerabilities, LAMBDA v : IsOpenStatus(v.status))
          /\ m.closed = Count(m.vulnerabilities, LAMBDA v : IsFixedOrClosedStatus(v.status))
          /\ m.overdue = Count(m.vulnerabilities, LAMBDA v : v.days_overdue > 0)
    /\ ( /\ Len(vulnerabilities) = 2 /\ ownerFilters = EmptyOwnerFilters
         /\ \A i \in 1..2 : vulnerabilities[i].owner = ""
         /\ vulnerabilities[1].severity = "Critical" /\ vulnerabilities[1].status = "Open"
         /\ vulnerabilities[1].days_overdue = 2
         /\ vulnerabilities[2].severity = "Low" /\ vulnerabilities[2].status = "Fixed"
         /\ vulnerabilities[2].days_overdue = 0 )
       => /\ Len(owners) = 1
          /\ owners[1].totalFindings = 2 /\ owners[1].criticalCount = 1
          /\ owners[1].lowCount = 1 /\ owners[1].openFindings = 1
          /\ owners[1].fixedFindings = 1 /\ owners[1].fixRate = 50

\* the class the SLA rule gives a finding: thresholds Critical 1, High 7,
\* Medium 30, Low 90, Info 180 (30 for any other severity)
RuleThreshold(sev) ==
    CASE sev = "Critical" -> 1 [] sev = "High" -> 7 [] sev = "Medium" -> 30
      [] sev = "Low" -> 90 [] sev = "Info" -> 180 [] OTHER -> 30
RuleClass(v) ==
    LET t == RuleThreshold(v.severity)
        d == v.days_overdue
    IN IF d > t THEN "breached"
       ELSE IF 0 < d /\ d <= t /\ 10 * d >= 8 * t THEN "at-risk"
       ELSE "on-track"

\* C7: every finding is in exactly one SLA class, the one the rule gives it;
\* getSlaStatus returns that class and slaMetrics tallies the findings of the
\* breached and at-risk classes.
C7_SlaClasses ==
    LET filtered == filteredVulnerabilities
        metrics == SlaMetricsOf(filtered)
    IN
    /\ \A i \in DOMAIN filtered :
          LET v == filtered[i] IN
          /\ GetSlaStatus(v) = RuleClass(v)
          /\ IsBreached(v) <=> RuleClass(v) = "breached"
          /\ IsAtRisk(v) <=> RuleClass(v) = "at-risk"
    /\ metrics.totalBreached = Count(filtered, LAMBDA v : GetSlaStatus(v) = "breached")
    /\ metrics.atRisk = Count(filtered, LAMBDA v : GetSlaStatus(v) = "at-risk")

\* C7 witness: the tracker holds a Critical finding two days overdue, which
\* is breached, next to a finding that is at risk.
C7_Witness ==
    /\ page = "sla" /\ Len(filteredVulnerabilities) = 2
    /\ filteredVulnerabilities[1].severity = "Critical"
    /\ filteredVulnerabilities[1].days_overdue = 2
    /\ GetSlaStatus(filteredVulnerabilities[1]) = "breached"
    /\ GetSlaStatus(filteredVulnerabilities[2]) = "at-risk"
    /\ slaMetrics.totalBreached = 1 /\ slaMetrics.atRisk = 1

\* r is part / total * 100 rounded to the nearest integer (half up)
IsRoundedPercent(r, part, total) ==
    /\ 2 * r * total - total <= 200 * part
    /\ 200 * part < 2 * r * total + total

\* C8: the fix rate of an owner group and the completion rate of an assignee
\* group are the group's fixed (closed) count over its total, times 100,
\* rounded; they are integers in 0..100, and the rate over a total of 0 is 0.
C8_RatesRounded ==
    LET owners == ownerData
        assignees == assigneeMetrics
        summary == OwnerSummaryOf(owners)
    IN
    /\ \A g \in DOMAIN owners :
          LET o == owners[g] IN
          /\ o.fixRate \in 0..100
          /\ IF o.totalFindings = 0 THEN o.fixRate = 0
             ELSE IsRoundedPercent(o.fixRate, o.fixedFindings, o.totalFindings)
    /\ \A g \in DOMAIN assignees :
          LET m == assignees[g] IN
          /\ m.completionRate \in 0..100
          /\ IF m.total = 0 THEN m.completionRate = 0
             ELSE IsRoundedPercent(m.completionRate, m.closed, m.total)
    /\ summary.fixRate \in 0..100
    /\ owners = <<>> => summary.fixRate = 0

\* C8 witness: an owner group with two of three findings fixed shows 67.
C8_Witness ==
    /\ page = "owners"
    /\ LET owners == ownerData IN
       \E g \in DOMAIN owners :
          /\ owners[g].totalFindings = 3 /\ owners[g].fixedFindings = 2
          /\ owners[g].fixRate = 67

\* C10: host groups are listed by non-increasing weighted priority, and
\* groups of equal priority by (non-increasing) raw finding count.
C10_HostOrder ==
    LET groups == hostGroups IN
    \A i, j \in DOMAIN groups :
        i < j =>
            /\ HostPriority(groups[i]) >= HostPriority(groups[j])
            /\ HostPriority(groups[i]) = HostPriority(groups[j])
                   => groups[i].count >= groups[j].count

(***************************************************************************)
(* CloudflareService.getVulnerabilities and CloudflareDashboard.fetchData. *)
(* A backend row carries the fields 'Domain', 'Vulnerability Name',        *)
(* 'Severity', 'Status' and 'Aging (Days)' (a number <<n>>, or None when   *)
(* the field is missing).                                                  *)
(***************************************************************************)
MaxCfFindings == 2      \* rows in the Cloudflare backend

\* normalizeSeverity
NormalizeSeverity(sev) ==
    LET lower == ToLowerCase(Chars[OrElse(sev, "unknown")]) IN
    CASE lower = Chars["critical"] -> "Critical"
      [] lower = Chars["high"] -> "High"
      [] lower = Chars["medium"] -> "Medium"
      [] lower = Chars["low"] -> "Low"
      [] OTHER -> "Unknown"

\* normalizeStatus
NormalizeStatus(status) ==
    LET lower == ToLowerCase(Chars[OrElse(status, "open")]) IN
    CASE lower = Chars["fixed"] -> "Fixed"
      [] lower = Chars["open"] -> "Open"
      [] lower = Chars["accepted risk"] -> "Accepted Risk"
      [] lower = Chars["work in progress"] -> "Work in Progress"
      [] OTHER -> "Open"

\* v['Aging (Days)'] || 0
AgingOrZero(x) == IF x = None \/ x = <<0>> THEN 0 ELSE x[1]

\* transformVulnerability
TransformVulnerability(v) ==
    [ domain |-> OrElse(v.Domain, ""),
      vulnerability_name |-> OrElse(v.VulnerabilityName, ""),
      severity |-> NormalizeSeverity(v.Severity),
      status |-> NormalizeStatus(v.Status),
      aging_days |-> AgingOrZero(v.AgingDays) ]

\* getVulnerabilities: rawData.map(transformVulnerability)
GetVulnerabilities(rawData) == MapSeq(rawData, TransformVulnerability)

\* the backend's answer to GET /api/cloudflare/summary for its rows
BackendSummary(rows) ==
    [ total_vulnerabilities |-> Len(rows),
      fixed_vulnerabilities |-> Count(rows, LAMBDA v : LowerEq(v.Status, "fixed")) ]

\* transformSummary (the totals)
TransformSummary(summary) ==
    [ total_vulnerabilities |-> summary.total_vulnerabilities,
      fixed_vulnerabilities |-> summary.fixed_vulnerabilities ]

\* the rows the backend lists for the filters of a query string (a sequence
\* of <<key, value>> pairs; None for no filter): those of the domain asked for
ListedFor(rows, filtersAsked) ==
    SelectSeq(rows, LAMBDA v : \A k \in DOMAIN filtersAsked :
                                  filtersAsked[k][1] = "domain" => v.Domain = filtersAsked[k][2])

\* getRowKey: `${vuln.domain}-${vuln.vulnerability_name}`
GetRowKey(vuln) == Chars[vuln.domain] \o <<"-">> \o Chars[vuln.vulnerability_name]

\* filteredVulnerabilities of the dashboard (the client-side search): a finding
\* passes if there is no search term, or its domain or its name contains the
\* term, compared in lower case
CfSearchKeeps(v, term) ==
    \/ term = ""
    \/ LET search == ToLowerCase(Chars[term]) IN
       \/ Includes(ToLowerCase(Chars[v.domain]), search)
       \/ Includes(ToLowerCase(Chars[v.vulnerability_name]), search)

CfFilteredOf(vulns, term) == SelectSeq(vulns, LAMBDA v : CfSearchKeeps(v, term))

cfFilteredVulnerabilities == CfFilteredOf(cfVulnerabilities, cfSearchTerm)

(***************************************************************************)
(* usePagination, as CloudflareDashboard calls it: over the filtered       *)
(* findings, { pageSize: 10, initialPage: 1 }.  Indices are those of the   *)
(* code (from 0, the end excluded).                                        *)
(***************************************************************************)
PageSize == 10

Min2(a, b) == IF a <= b THEN a ELSE b
Max2(a, b) == IF a >= b THEN a ELSE b

\* Math.ceil(totalItems / pageSize)
TotalPages(totalItems) == (totalItems + PageSize - 1) \div PageSize

\* Array.prototype.slice(start, end) for 0 <= start
Slice(data, start, end) ==
    IF start >= Min2(end, Len(data)) THEN <<>>
    ELSE SubSeq(data, start + 1, Min2(end, Len(data)))

\* the pagination memo for a data list and a currentPage state
PaginationOf(data, pageState) ==
    LET totalItems == Len(data)
        totalPages == TotalPages(totalItems)
        startIndex == (pageState - 1) * PageSize
        endIndex == Min2(startIndex + PageSize, totalItems)
    IN [ currentPage |-> Min2(pageState, Max2(1, totalPages)),
         totalPages |-> totalPages,
         totalItems |-> totalItems,
         startIndex |-> startIndex,
         endIndex |-> endIndex,
         paginatedData |-> Slice(data, startIndex, endIndex),
         hasNextPage |-> pageState < totalPages,
         hasPrevPage |-> pageState > 1 ]

\* a memo that leaves a page state beyond the last page as it is
PageAfterRender_NoReset(data, pageState) == pageState

\* the render in which the memo runs: if (currentPage > totalPages &&
\* totalPages > 0) setCurrentPage(1), which renders again with page 1
PageAfterRender(data, pageState) ==
    IF pageState > TotalPages(Len(data)) /\ TotalPages(Len(data)) > 0 THEN 1 ELSE pageState

\* what the hook hands to the dashboard
pagination == PaginationOf(cfFilteredVulnerabilities, currentPage)
paginatedVulnerabilities == pagination.paginatedData

\* the two requests of fetchData's Promise.all
\* (getVulnerabilities puts the filters that are set into the query string)
CfVulnerabilitiesRequestFor(filtersAsked) ==
    ApiRequest("GET", "/api/cloudflare/vulnerabilities", filtersAsked)
CfVulnerabilitiesRequest == CfVulnerabilitiesRequestFor(cfFilters)
CfSummaryRequest == ApiRequest("GET", "/api/cloudflare/summary", None)

\* s without its oldest request to the endpoint
RemoveOldest(s, endpoint) ==
    LET at == { i \in DOMAIN s : s[i].endpoint = endpoint }
    IN Remove(s, CHOOSE i \in at : \A j \in at : i <= j)

\* fetchData up to its await: setLoading(true); setError(null)
CfFetchStart ==
    /\ page = "cloudflare"
    /\ location # "/login"
    /\ cfPending < MaxPending
    /\ cfLoading' = TRUE
    /\ cfError' = "null"
    /\ cfPending' = cfPending + 1
    /\ inFlight' = inFlight \o <<CfVulnerabilitiesRequest, CfSummaryRequest>>
    /\ flow' = [ NoFlow EXCEPT !.kind = "load", !.pc = "loading",
                               !.sent = <<CfVulnerabilitiesRequest, CfSummaryRequest>> ]
    /\ UNCHANGED <<page, backend, hookVars, pageVars, cfBackend, cfVulnerabilities,
                   cfSummary, cfSelectedRows, retest, authToken, location, sessionValid, lastStatus,
                   cfViewVars>>

\* the mount effect of CloudflareDashboard
CfMount ==
    /\ cfLoading /\ cfPending = 0 /\ flow.kind = "none"
    /\ CfFetchStart

\* fetchData called again (Refresh button, changed server-side filters)
CfRefresh ==
    /\ flow.kind # "none" /\ flow.pc \in {"loading", "done"}
    /\ CfFetchStart

\* both requests of the oldest fetchData still in flight
CfFetchPending ==
    /\ cfPending > 0
    /\ Pending("/api/cloudflare/vulnerabilities") # {}
    /\ Pending("/api/cloudflare/summary") # {}

\* inFlight once the oldest fetchData's two requests are answered
AfterCfFetch ==
    RemoveOldest(RemoveOldest(inFlight, "/api/cloudflare/vulnerabilities"),
                 "/api/cloudflare/summary")

\* fetchData after Promise.all resolved
CfFetchOk ==
    /\ page = "cloudflare"
    /\ CfFetchPending
    /\ "200" \in ResponseKinds(inFlight[Oldest("/api/cloudflare/vulnerabilities")])
    /\ cfVulnerabilities' = GetVulnerabilities(
           ListedFor(cfBackend, inFlight[Oldest("/api/cloudflare/vulnerabilities")].target))
    /\ cfSummary' = TransformSummary(BackendSummary(cfBackend))
    /\ cfSelectedRows' = {}
    /\ cfLoading' = FALSE
    /\ cfPending' = cfPending - 1
    /\ inFlight' = AfterCfFetch
    /\ HandleResponse("200")
    /\ flow' = AfterLoad(flow, cfPending - 1)
    /\ currentPage' = PageAfterRender(CfFilteredOf(cfVulnerabilities', cfSearchTerm),
                                      currentPage)
    /\ UNCHANGED <<page, backend, hookVars, pageVars, cfBackend, cfError, retest,
                   cfFilters, cfSearchTerm, retestDialog, runs>>

\* fetchData after Promise.all rejected
CfFetchFail ==
    /\ page = "cloudflare"
    /\ CfFetchPending
    /\ \E kind \in ResponseKinds(inFlight[Oldest("/api/cloudflare/vulnerabilities")]) :
         /\ Rejects(kind)
         /\ HandleResponse(kind)
    /\ cfError' = "Failed to fetch data"
    /\ cfLoading' = FALSE
    /\ cfPending' = cfPending - 1
    /\ inFlight' = AfterCfFetch
    /\ flow' = AfterLoad(flow, cfPending - 1)
    /\ UNCHANGED <<page, backend, hookVars, pageVars, cfBackend, cfVulnerabilities,
                   cfSummary, cfSelectedRows, retest,
                   cfViewVars>>

\* toggleRowSelection, from the checkbox of a row of the page shown
ToggleRowSelection ==
    /\ page = "cloudflare"
    /\ \E i \in DOMAIN paginatedVulnerabilities :
         cfSelectedRows' = Toggle(cfSelectedRows, GetRowKey(paginatedVulnerabilities[i]))
    /\ UNCHANGED <<page, backend, hookVars, pageVars, cfBackend, cfVulnerabilities,
                   cfLoading, cfError, cfSummary, cfPending, retest, apiVars, flow,
                   cfViewVars>>

(***************************************************************************)
(* Loading from the two feeds (SpecLoad): backend rows that may lack a     *)
(* name or a host.                                                         *)
(***************************************************************************)
LoadRows ==
    { Row(n, h, "", sev, "", "", "", "") :
        n \in {"", "XSS"}, h \in {"", "h1"}, sev \in {"", "High"} }

CfRows ==
    { [ Domain |-> d, VulnerabilityName |-> n, Severity |-> x[1], Status |-> x[2],
        AgingDays |-> x[3] ] :
        d \in {"", "h1"}, n \in {"", "XSS"},
        x \in { <<"critical", "FIXED", <<5>>>>, <<"Info", "Triaged", None>>,
                <<"", "", <<0>>>> } }

InitLoad ==
    /\ \/ page = "findings" /\ backend \in SeqsUpTo(LoadRows, MaxFindings) /\ cfBackend = <<>>
       \/ page = "cloudflare" /\ backend = <<>> /\ cfBackend \in SeqsUpTo(CfRows, MaxCfFindings)
    /\ HookInit /\ PageInit /\ CloudflareInit /\ ApiInit
    /\ retest = NoRetest

NextLoad ==
    \/ Mount \/ Refresh \/ LoadOk \/ LoadFail
    \/ CfMount \/ CfRefresh \/ CfFetchOk \/ CfFetchFail \/ ToggleRowSelection

SpecLoad == InitLoad /\ [][NextLoad]_vars

\* C5: after a load from either feed every finding held in memory has a
\* non-empty name and a non-empty host (domain).
C5_LoadedFindingsNamed ==
    /\ \A i \in DOMAIN vulnerabilities :
          vulnerabilities[i].name # "" /\ vulnerabilities[i].host # ""
    /\ \A i \in DOMAIN cfVulnerabilities :
          cfVulnerabilities[i].vulnerability_name # "" /\ cfVulnerabilities[i].domain # ""

(***************************************************************************)
(* Bulk retest: CSVService.bulkRetest and CloudflareService.bulkRetest.    *)
(* An error is [name, message], its message a list of the pieces that a    *)
(* template string joins with ": "; String(error) puts the name in front.  *)
(***************************************************************************)
\* String(error)
ErrorString(e) == <<e.name>> \o e.message

NoError == [ name |-> "", message |-> <<>> ]

\* what apiService.post can do: resolve with the JSON body (None: the body
\* is null), or reject (401, other HTTP error, fetch failure)
PostBodies ==
    { <<[ success |-> TRUE, status |-> "Fixed", findingsCount |-> 0 ]>>,
      <<[ success |-> FALSE, status |-> "Open", findingsCount |-> 1 ]>>,
      None }
PostErrors ==
    { [ name |-> "Error", message |-> <<"Authentication required">> ],
      [ name |-> "Error", message |-> <<"HTTP error! status: 500">> ],
      [ name |-> "TypeError", message |-> <<"Failed to fetch">> ] }
Resolved == { [ kind |-> "resolved", body |-> b, error |-> NoError ] : b \in PostBodies }
Rejected == { [ kind |-> "rejected", body |-> None, error |-> e ] : e \in PostErrors }

\* reading result.status of a null body
NullBodyError ==
    [ name |-> "TypeError", message |-> <<"Cannot read properties of null">> ]

\* CSVService.retestVulnerability: the body, or a wrapped error thrown
CsvRetestVulnerability(name, host, outcome) ==
    IF outcome.kind = "rejected"
    THEN [ threw |-> TRUE, value |-> None,
           error |-> [ name |-> "Error",
                       message |-> <<"Failed to retest vulnerability">>
                                       \o ErrorString(outcome.error) ] ]
    ELSE [ threw |-> FALSE, value |-> outcome.body, error |-> NoError ]

\* one iteration of CSVService.bulkRetest: the entry pushed
CsvBulkRetestEntry(vuln, outcome) ==
    LET result == CsvRetestVulnerability(vuln.name, vuln.host, outcome)
        failed(e) == [ name |-> vuln.name, host |-> vuln.host, success |-> FALSE,
                       status |-> None, findingsCount |-> None,
                       error |-> ErrorString(e) ]
    IN IF result.threw THEN failed(result.error)
       ELSE IF result.value = None THEN failed(NullBodyError)
       ELSE [ name |-> vuln.name, host |-> vuln.host, success |-> TRUE,
              status |-> <<result.value[1].status>>,
              findingsCount |-> <<result.value[1].findingsCount>>,
              error |-> None ]

\* CloudflareService.retestVulnerability: the result returned (it never throws)
CfRetestVulnerability(domain, vulnerabilityName, outcome) ==
    LET failed(e) == [ name |-> vulnerabilityName, host |-> domain, success |-> FALSE,
                       status |-> None, findingsCount |-> None,
                       error |-> ErrorString(e) ]
    IN IF outcome.kind = "rejected" THEN failed(outcome.error)
       ELSE IF outcome.body = None THEN failed(NullBodyError)
       ELSE [ name |-> vulnerabilityName, host |-> domain, success |-> TRUE,
              status |-> <<outcome.body[1].status>>,
              findingsCount |-> <<outcome.body[1].findingsCount>>,
              error |-> None ]

\* the entry one iteration pushes (name/host stand for vulnerability_name/domain
\* in the Cloudflare service)
RetestEntry(service, vuln, outcome) ==
    IF service = "csv" THEN CsvBulkRetestEntry(vuln, outcome)
    ELSE CfRetestVulnerability(vuln.host, vuln.name, outcome)

\* an iteration that lets the failure of its call escape the loop
BulkRetestStep_AbortsOnFailure(r, outcome) ==
    IF RetestEntry(r.service, r.items[r.pos], outcome).success
    THEN [ r EXCEPT !.calls = Append(@, outcome),
                    !.results = Append(@, RetestEntry(r.service, r.items[r.pos], outcome)),
                    !.pos = @ + 1, !.pc = "running" ]
    ELSE [ r EXCEPT !.calls = Append(@, outcome), !.pc = "threw" ]

\* one iteration of the for loop of bulkRetest, after its await: push the entry
\* of the call and go on with the next item
BulkRetestStep(r, outcome) ==
    [ r EXCEPT !.calls = Append(@, outcome),
               !.results = Append(@, RetestEntry(r.service, r.items[r.pos], outcome)),
               !.pos = @ + 1, !.pc = "running" ]

RetestTargets == { [ name |-> "XSS", host |-> h ] : h \in {"h1", "h2"} }

\* bulkRetest(vulnerabilities) is called: const results = []
BulkRetestStart ==
    /\ page = "services"
    /\ retest.pc = "idle"
    /\ \E service \in {"csv", "cloudflare"}, items \in SeqsUpTo(RetestTargets, MaxRetest) :
         retest' = [ service |-> service, items |-> items, pos |-> 1, calls |-> <<>>,
                     results |-> <<>>, pc |-> "running" ]
    /\ UNCHANGED <<page, backend, hookVars, pageVars, cfVars, apiVars, flow>>

\* POST /retest (CSVService) or POST /api/cloudflare/retest, for one finding
RetestEndpoint(service) == IF service = "csv" THEN "/retest" ELSE "/api/cloudflare/retest"
RetestRequest(service, vuln) ==
    ApiRequest("POST", RetestEndpoint(service), <<vuln.name, vuln.host>>)

\* a loop that sends the requests of all the remaining items without awaiting
RetestRequestsToSend_AllAtOnce(r) ==
    [ i \in 1..(Len(r.items) - r.pos + 1) |->
        RetestRequest(r.service, r.items[r.pos + i - 1]) ]

\* the requests an iteration sends before its await: the current item's
RetestRequestsToSend(r) == <<RetestRequest(r.service, r.items[r.pos])>>

\* an iteration up to its await: this.retestVulnerability(...) sends the request
RetestCallIssue ==
    /\ retest.pc = "running" /\ retest.pos <= Len(retest.items)
    /\ inFlight' = inFlight \o RetestRequestsToSend(retest)
    /\ retest' = [ retest EXCEPT !.pc = "awaiting" ]
    /\ UNCHANGED <<page, backend, hookVars, pageVars, cfVars,
                   authToken, location, sessionValid, lastStatus, flow>>

\* the request the awaiting iteration waits for
RetestAwaited == Oldest(RetestEndpoint(retest.service))

\* an iteration whose apiService.post resolves
RetestCallResolves ==
    /\ retest.pc = "awaiting"
    /\ "200" \in ResponseKinds(inFlight[RetestAwaited])
    /\ \E outcome \in Resolved : retest' = BulkRetestStep(retest, outcome)
    /\ inFlight' = Remove(inFlight, RetestAwaited)
    /\ HandleResponse("200")
    /\ UNCHANGED <<page, backend, hookVars, pageVars, cfVars, flow>>

\* an iteration whose apiService.post rejects
RetestCallRejects ==
    /\ retest.pc = "awaiting"
    /\ \E kind \in ResponseKinds(inFlight[RetestAwaited]) :
         /\ Rejects(kind)
         /\ \E outcome \in Rejected :
              /\ outcome.error = ResponseError(kind)
              /\ retest' = BulkRetestStep(retest, outcome)
         /\ HandleResponse(kind)
    /\ inFlight' = Remove(inFlight, RetestAwaited)
    /\ UNCHANGED <<page, backend, hookVars, pageVars, cfVars, flow>>

\* the loop is over: return results
BulkRetestReturn ==
    /\ retest.pc = "running" /\ retest.pos > Len(retest.items)
    /\ retest' = [ retest EXCEPT !.pc = "done" ]
    /\ UNCHANGED <<page, backend, hookVars, pageVars, cfVars, apiVars, flow>>

InitRetest ==
    /\ page = "services"
    /\ backend = <<>> /\ cfBackend = <<>>
    /\ HookInit /\ PageInit /\ CloudflareInit /\ ApiInit
    /\ retest = NoRetest

NextRetest ==
    \/ BulkRetestStart \/ RetestCallIssue \/ RetestCallResolves \/ RetestCallRejects
    \/ BulkRetestReturn
    \/ SessionExpires

SpecRetest == InitRetest /\ [][NextRetest]_vars

\* a call failed: its apiService.post rejected
CallFailed(outcome) == outcome.kind = "rejected"

\* the text of the error of a failed call occurs in the entry's error
CapturesError(entry, outcome) ==
    /\ entry.error # None
    /\ \E k \in 0..(Len(entry.error) - Len(ErrorString(outcome.error))) :
          SubSeq(entry.error, k + 1, k + Len(ErrorString(outcome.error)))
              = ErrorString(outcome.error)

\* C3: a bulk retest never lets an exception escape; while it runs the
\* results hold one entry per finding already retested, in input order; a
\* failed call gives success = false with the captured error and the loop
\* goes on; the returned list has exactly one entry per input finding.
C3_BulkRetestTotal ==
    /\ retest.pc # "threw"
    /\ Len(retest.results) = Len(retest.calls)
    /\ Len(retest.results) <= Len(retest.items)
    /\ \A i \in DOMAIN retest.results :
          /\ retest.results[i].name = retest.items[i].name
          /\ retest.results[i].host = retest.items[i].host
          /\ CallFailed(retest.calls[i])
                => /\ ~retest.results[i].success
                   /\ CapturesError(retest.results[i], retest.calls[i])
    /\ retest.pc = "done" => Len(retest.results) = Len(retest.items)

\* C3 witness: three findings, the second call failed, all three have an entry
C3_Witness ==
    /\ retest.pc = "done" /\ Len(retest.items) = 3 /\ Len(retest.results) = 3
    /\ ~CallFailed(retest.calls[1]) /\ retest.results[1].success
    /\ CallFailed(retest.calls[2]) /\ ~retest.results[2].success
    /\ ~CallFailed(retest.calls[3]) /\ retest.results[3].success

(***************************************************************************)
(* Handlers that change findings, request by request (SpecFlows):          *)
(* useVulnerabilities.updateVulnerabilities, and CloudflareDashboard's     *)
(* handleVulnerabilityUpdate and handleBulkRetest.  flow is the handler    *)
(* the latest user action started: its kind, its position (pc), the        *)
(* findings it works on, the requests it has sent so far, and for a bulk   *)
(* retest the results shown in the retest dialog (retestResults; the       *)
(* dialog's retestTotal is Len(items), retestCompleted is Len(results)).   *)
(* The user starts a handler only when none is running.                    *)
(***************************************************************************)
\* no handler is running and the page is still there
HandlerIdle ==
    /\ flow.pc \in {"done", "threw"}
    /\ inFlight = <<>>
    /\ location # "/login"

\* POST /update with the updates of one finding
UpdateRequest(vuln) == ApiRequest("POST", "/update", <<vuln.name, vuln.host>>)

\* updateVulnerabilities(updates) up to its first await
UpdateStart ==
    /\ UsesHook /\ HandlerIdle
    /\ \E i \in DOMAIN filteredVulnerabilities :
         LET vuln == filteredVulnerabilities[i] IN
         /\ inFlight' = <<UpdateRequest(vuln)>>
         /\ flow' = [ NoFlow EXCEPT !.kind = "update", !.pc = "updating",
                                    !.items = <<vuln>>, !.sent = <<UpdateRequest(vuln)>> ]
    /\ UNCHANGED <<page, backend, hookVars, pageVars, cfVars, retest,
                   authToken, location, sessionValid, lastStatus>>

\* CSVService.updateVulnerabilities resolved (result.success): await loadData(),
\* which starts with setLoading(true); setError(null)
UpdateOk ==
    /\ flow.kind = "update" /\ flow.pc = "updating"
    /\ "200" \in ResponseKinds(inFlight[Oldest("/update")])
    /\ HandleResponse("200")
    /\ loading' = TRUE
    /\ error' = "null"
    /\ pendingLoads' = pendingLoads + 1
    /\ inFlight' = Append(Remove(inFlight, Oldest("/update")), LoadRequest)
    /\ flow' = [ flow EXCEPT !.pc = "loading", !.sent = Append(@, LoadRequest),
                             !.results = <<[ success |-> TRUE ]>>, !.mutated = TRUE ]
    /\ tableSelection' = {}
    /\ UNCHANGED <<page, backend, vulnerabilities, filters, ownerFilters, sortBy, cfVars, retest>>

\* the body of POST /update when the backend refuses the update
UpdateRefused == [ success |-> FALSE ]

\* what a failed update leaves in the flow: the body, if there was one
AfterUpdateFailed(f, kind) ==
    [ f EXCEPT !.pc = "threw",
               !.results = IF kind = "200" THEN <<UpdateRefused>> ELSE @ ]

\* an updateVulnerabilities whose catch sets the error and reloads all the same
UpdateFail_Reloads ==
    /\ flow.kind = "update" /\ flow.pc = "updating"
    /\ \E kind \in ResponseKinds(inFlight[Oldest("/update")]) :
         /\ HandleResponse(kind)
         /\ flow' = [ AfterUpdateFailed(flow, kind) EXCEPT !.sent = Append(@, LoadRequest) ]
    /\ error' = "Failed to update vulnerabilities"
    /\ pendingLoads' = pendingLoads + 1
    /\ inFlight' = Append(Remove(inFlight, Oldest("/update")), LoadRequest)
    /\ tableSelection' = {}
    /\ UNCHANGED <<page, backend, vulnerabilities, loading, filters,
                   ownerFilters, sortBy, cfVars, retest>>

\* CSVService.updateVulnerabilities threw (the request rejected, or the body
\* says success: false, which is the "200" here): setError(message); throw err
UpdateFail ==
    /\ flow.kind = "update" /\ flow.pc = "updating"
    /\ \E kind \in ResponseKinds(inFlight[Oldest("/update")]) :
         /\ HandleResponse(kind)
         /\ flow' = AfterUpdateFailed(flow, kind)
    /\ error' = "Failed to update vulnerabilities"
    /\ inFlight' = Remove(inFlight, Oldest("/update"))
    /\ tableSelection' = {}
    /\ UNCHANGED <<page, backend, vulnerabilities, loading, filters, pendingLoads,
                   ownerFilters, sortBy, cfVars, retest>>

\* prev.map(v => v.domain === domain && v.vulnerability_name === name
\*               ? {...v, status} : v)
WithStatus(vulns, domain, vulnName, status) ==
    [ i \in DOMAIN vulns |->
        IF vulns[i].domain = domain /\ vulns[i].vulnerability_name = vulnName
        THEN [ vulns[i] EXCEPT !.status = status ]
        ELSE vulns[i] ] \o <<>>

\* POST /api/cloudflare/update for one finding
CfUpdateRequest(vuln) ==
    ApiRequest("POST", "/api/cloudflare/update", <<vuln.vulnerability_name, vuln.domain>>)

\* the statuses the update dialog offers in the model
UpdateStatusChoices == {"Fixed"}

\* handleVulnerabilityUpdate up to its first await
CfUpdateStart ==
    /\ page = "cloudflare" /\ HandlerIdle
    /\ \E i \in DOMAIN cfVulnerabilities, status \in UpdateStatusChoices :
         LET vuln == cfVulnerabilities[i] IN
         /\ inFlight' = <<CfUpdateRequest(vuln)>>
         /\ flow' = [ NoFlow EXCEPT !.kind = "cfUpdate", !.pc = "updating",
                                    !.items = <<[ vuln EXCEPT !.status = status ]>>,
                                    !.sent = <<CfUpdateRequest(vuln)>> ]
    /\ UNCHANGED <<page, backend, hookVars, pageVars, cfVars, retest,
                   authToken, location, sessionValid, lastStatus>>

\* updateSingleVulnerability resolved: the record is replaced in memory, then
\* await cloudflareService.getSummary()
CfUpdateOk ==
    /\ flow.kind = "cfUpdate" /\ flow.pc = "updating"
    /\ "200" \in ResponseKinds(inFlight[Oldest("/api/cloudflare/update")])
    /\ HandleResponse("200")
    /\ cfVulnerabilities' = WithStatus(cfVulnerabilities, flow.items[1].domain,
                                       flow.items[1].vulnerability_name, flow.items[1].status)
    /\ inFlight' = Append(Remove(inFlight, Oldest("/api/cloudflare/update")), CfSummaryRequest)
    /\ flow' = [ flow EXCEPT !.pc = "summary", !.sent = Append(@, CfSummaryRequest),
                             !.mutated = TRUE ]
    /\ UNCHANGED <<page, backend, hookVars, pageVars, cfBackend, cfLoading, cfError,
                   cfSummary, cfSelectedRows, cfPending, retest,
                   cfViewVars>>

\* updateSingleVulnerability rejected: the handler has no catch
CfUpdateFail ==
    /\ flow.kind = "cfUpdate" /\ flow.pc = "updating"
    /\ \E kind \in ResponseKinds(inFlight[Oldest("/api/cloudflare/update")]) :
         /\ Rejects(kind)
         /\ HandleResponse(kind)
    /\ inFlight' = Remove(inFlight, Oldest("/api/cloudflare/update"))
    /\ flow' = [ flow EXCEPT !.pc = "threw" ]
    /\ UNCHANGED <<page, backend, hookVars, pageVars, cfVars, retest>>

\* the closing getSummary of a handler resolved: setSummary(newSummary)
CfSummaryOk ==
    /\ flow.pc = "summary"
    /\ "200" \in ResponseKinds(inFlight[Oldest("/api/cloudflare/summary")])
    /\ HandleResponse("200")
    /\ cfSummary' = TransformSummary(BackendSummary(cfBackend))
    /\ inFlight' = Remove(inFlight, Oldest("/api/cloudflare/summary"))
    /\ flow' = [ flow EXCEPT !.pc = "done" ]
    /\ UNCHANGED <<page, backend, hookVars, pageVars, cfBackend, cfVulnerabilities,
                   cfLoading, cfError, cfSelectedRows, cfPending, retest,
                   cfViewVars>>

\* the closing getSummary rejected: handleVulnerabilityUpdate and handleBulkRetest
\* have no catch, handleBulkStatusUpdate catches and shows a toast
CfSummaryFail ==
    /\ flow.pc = "summary"
    /\ \E kind \in ResponseKinds(inFlight[Oldest("/api/cloudflare/summary")]) :
         /\ Rejects(kind)
         /\ HandleResponse(kind)
    /\ inFlight' = Remove(inFlight, Oldest("/api/cloudflare/summary"))
    /\ flow' = [ flow EXCEPT !.pc = IF flow.kind = "cfBulkUpdate" THEN "done" ELSE "threw" ]
    /\ UNCHANGED <<page, backend, hookVars, pageVars, cfVars, retest>>

\* getSelectedVulnerabilities
GetSelectedVulnerabilities ==
    SelectSeq(cfFilteredVulnerabilities, LAMBDA v : GetRowKey(v) \in cfSelectedRows)

\* handleBulkRetest up to its loop: the retest dialog opens with no results
CfBulkRetestStart ==
    /\ page = "cloudflare" /\ HandlerIdle
    /\ GetSelectedVulnerabilities # <<>>
    /\ flow' = [ NoFlow EXCEPT !.kind = "cfBulkRetest", !.pc = "retesting",
                               !.items = GetSelectedVulnerabilities, !.pos = 1 ]
    /\ UNCHANGED <<page, backend, hookVars, pageVars, cfVars, retest, apiVars>>

\* POST /api/cloudflare/retest for the finding the loop is at
CfRetestRequest(vuln) ==
    ApiRequest("POST", "/api/cloudflare/retest", <<vuln.vulnerability_name, vuln.domain>>)

\* an iteration of the loop up to its await
CfBulkRetestSend ==
    /\ flow.kind = "cfBulkRetest" /\ flow.pc = "retesting"
    /\ flow.pos <= Len(flow.items)
    /\ inFlight' = Append(inFlight, CfRetestRequest(flow.items[flow.pos]))
    /\ flow' = [ flow EXCEPT !.pc = "awaiting",
                             !.sent = Append(@, CfRetestRequest(flow.items[flow.pos])) ]
    /\ UNCHANGED <<page, backend, hookVars, pageVars, cfVars, retest,
                   authToken, location, sessionValid, lastStatus>>

\* an iteration after its await: push the result, show it, and replace the
\* finding's status if (result.success && result.status)
CfBulkRetestSettle(kind, outcome) ==
    LET vuln == flow.items[flow.pos]
        result == CfRetestVulnerability(vuln.domain, vuln.vulnerability_name, outcome)
    IN
    /\ HandleResponse(kind)
    /\ inFlight' = Remove(inFlight, Oldest("/api/cloudflare/retest"))
    /\ flow' = [ flow EXCEPT !.pc = "retesting", !.pos = @ + 1,
                             !.results = Append(@, result),
                             !.mutated = @ \/ result.success ]
    /\ cfVulnerabilities' =
          IF result.success /\ result.status # None /\ result.status # <<"">>
          THEN WithStatus(cfVulnerabilities, vuln.domain, vuln.vulnerability_name,
                          result.status[1])
          ELSE cfVulnerabilities
    /\ UNCHANGED <<page, backend, hookVars, pageVars, cfBackend, cfLoading, cfError,
                   cfSummary, cfSelectedRows, cfPending, retest,
                   cfViewVars>>

\* the awaited retest request was answered with a body
CfBulkRetestResolves ==
    /\ flow.kind = "cfBulkRetest" /\ flow.pc = "awaiting"
    /\ "200" \in ResponseKinds(inFlight[Oldest("/api/cloudflare/retest")])
    /\ \E outcome \in Resolved : CfBulkRetestSettle("200", outcome)

\* the awaited retest request rejected (retestVulnerability returns success: false)
CfBulkRetestRejects ==
    /\ flow.kind = "cfBulkRetest" /\ flow.pc = "awaiting"
    /\ \E kind \in ResponseKinds(inFlight[Oldest("/api/cloudflare/retest")]) :
         /\ Rejects(kind)
         /\ \E outcome \in Rejected :
              /\ outcome.error = ResponseError(kind)
              /\ CfBulkRetestSettle(kind, outcome)

\* after the loop: setIsRetesting(false); setSelectedRows(new Set());
\* await cloudflareService.getSummary()
CfBulkRetestFinish ==
    /\ flow.kind = "cfBulkRetest" /\ flow.pc = "retesting"
    /\ flow.pos > Len(flow.items)
    /\ cfSelectedRows' = {}
    /\ inFlight' = Append(inFlight, CfSummaryRequest)
    /\ flow' = [ flow EXCEPT !.pc = "summary", !.sent = Append(@, CfSummaryRequest) ]
    /\ UNCHANGED <<page, backend, hookVars, pageVars, cfBackend, cfVulnerabilities,
                   cfLoading, cfError, cfSummary, cfPending, retest,
                   authToken, location, sessionValid, lastStatus,
                   cfViewVars>>

\* rows of the two feeds for the handlers
FlowRows == { Row("XSS", h, "", "High", "Open", "", "", "") : h \in {"h1", "h2"} }
CfFlowRows ==
    { [ Domain |-> d, VulnerabilityName |-> "XSS", Severity |-> "high", Status |-> "Open",
        AgingDays |-> <<5>> ] : d \in {"h1", "h2"} }

InitFlows ==
    /\ \/ page = "findings" /\ backend \in SeqsUpTo(FlowRows, MaxFindings) /\ cfBackend = <<>>
       \/ page = "cloudflare" /\ backend = <<>> /\ cfBackend \in SeqsUpTo(CfFlowRows, MaxCfFindings)
    /\ HookInit /\ PageInit /\ CloudflareInit /\ ApiInit
    /\ retest = NoRetest

NextFlows ==
    \/ Mount \/ LoadOk \/ LoadFail
    \/ UpdateStart \/ UpdateOk \/ UpdateFail
    \/ CfMount \/ CfFetchOk \/ CfFetchFail \/ ToggleRowSelection
    \/ CfUpdateStart \/ CfUpdateOk \/ CfUpdateFail \/ CfSummaryOk \/ CfSummaryFail
    \/ CfBulkRetestStart \/ CfBulkRetestSend \/ CfBulkRetestResolves \/ CfBulkRetestRejects
    \/ CfBulkRetestFinish
    \/ SessionExpires

SpecFlows == InitFlows /\ [][NextFlows]_vars

\* a request that fetches the list of findings
IsFindingsFetch(request) ==
    /\ request.method = "GET"
    /\ request.endpoint \in {"/vulnerabilities", "/api/cloudflare/vulnerabilities"}

\* the position in a handler's requests of its last update or retest call
LastCall(sent) ==
    LET calls == { j \in DOMAIN sent : sent[j].method = "POST" } IN
    IF calls = {} THEN 0 ELSE CHOOSE j \in calls : \A k \in calls : k <= j

\* C11: the page load fetches the findings, and a handler that has completed
\* after an update or retest call that succeeded has sent a fetch of the
\* findings after its last such call.
C11_CallsFollowedByFetch ==
    /\ flow.kind = "load" => IsFindingsFetch(flow.sent[1])
    /\ (flow.pc = "done" /\ flow.mutated) =>
          \E k \in DOMAIN flow.sent :
              k > LastCall(flow.sent) /\ IsFindingsFetch(flow.sent[k])

\* the requests a step takes out of flight (those it answers)
Answered ==
    LET in(q, r) == Cardinality({ i \in DOMAIN q : q[i] = r }) IN
    { inFlight[i] : i \in { i \in DOMAIN inFlight :
                              in(inFlight', inFlight[i]) < in(inFlight, inFlight[i]) } }

\* the requests a step sends
Issued ==
    IF Len(flow'.sent) >= Len(flow.sent)
       /\ SubSeq(flow'.sent, 1, Len(flow.sent)) = flow.sent
    THEN { flow'.sent[k] : k \in (Len(flow.sent) + 1)..Len(flow'.sent) }
    ELSE { flow'.sent[k] : k \in DOMAIN flow'.sent }

\* the step hands an error to the code that awaited the request: the load
\* error is set, the handler is left by the exception, or the retest loop
\* records a failed result; no list or summary is replaced
StepRejects ==
    /\ \/ error' = "Failed to load vulnerabilities"
       \/ cfError' # "null"
       \/ flow'.pc = "threw"
       \/ /\ Len(flow'.results) = Len(flow.results) + 1
          /\ ~flow'.results[Len(flow'.results)].success
    /\ vulnerabilities' = vulnerabilities
    /\ cfVulnerabilities' = cfVulnerabilities
    /\ cfSummary' = cfSummary

\* C12: a step that answers a request with HTTP 401 removes authToken from
\* localStorage, sets the location to /login and rejects the request; once
\* the page has been sent to /login by a 401, every request issued carries no
\* token.
C12_UnauthorizedClearsToken ==
    [][ /\ (\E request \in Answered : Unauthorized(request)) =>
              /\ authToken' = None
              /\ location' = "/login"
              /\ StepRejects
        /\ location = "/login" => \A request \in Issued : request.auth = None
      ]_vars

\* a bulk retest goes on after a 401: its next request is sent without a token
C12_Witness ==
    /\ location = "/login"
    /\ authToken = None
    /\ flow.kind = "cfBulkRetest"
    /\ Len(flow.sent) >= 2
    /\ flow.sent[1].auth = Jwt
    /\ flow.sent[2].auth = None
    /\ Len(flow.results) >= 1
    /\ ~flow.results[1].success

\* the bulk retests of the two services and of the dashboard together
InitBulkRetest == InitRetest \/ (InitFlows /\ page = "cloudflare")

NextBulkRetest ==
    \/ BulkRetestStart \/ RetestCallIssue \/ RetestCallResolves \/ RetestCallRejects
    \/ BulkRetestReturn
    \/ CfMount \/ CfFetchOk \/ CfFetchFail \/ ToggleRowSelection
    \/ CfBulkRetestStart \/ CfBulkRetestSend \/ CfBulkRetestResolves \/ CfBulkRetestRejects
    \/ CfBulkRetestFinish \/ CfSummaryOk \/ CfSummaryFail
    \/ SessionExpires

SpecBulkRetest == InitBulkRetest /\ [][NextBulkRetest]_vars

\* the retest requests in flight (their positions)
RetestInFlight ==
    { i \in DOMAIN inFlight : inFlight[i].endpoint \in {"/retest", "/api/cloudflare/retest"} }

SeverityVocabulary(feed) ==
    IF feed = "cloudflare" THEN {"Critical", "High", "Medium", "Low", "Unknown"}
    ELSE {"Critical", "High", "Medium", "Low", "Info", "Unknown"}
StatusVocabulary(feed) ==
    IF feed = "cloudflare" THEN {"Fixed", "Open", "Accepted Risk", "Work in Progress"}
    ELSE {"Open", "In Progress", "Triaged", "Fixed", "Resolved", "Closed", "False Positive"}

\* the words of a vocabulary a backend value matches without regard to case,
\* or the fallback if it matches none
Canonical(raw, vocabulary, fallback) ==
    LET hits == { w \in vocabulary : ToLowerCase(Chars[raw]) = ToLowerCase(Chars[w]) } IN
    IF hits = {} THEN {fallback} ELSE hits

\* C14: every finding held after a load from either feed has the severity
\* and status that its backend row's values match in the feed's vocabulary,
\* case-insensitively, or "Unknown" / "Open" if they match none or are missing.
C14_IngestNormalized ==
    /\ \A i \in DOMAIN vulnerabilities :
          \E j \in DOMAIN backend :
              /\ backend[j].name = vulnerabilities[i].name
              /\ backend[j].host = vulnerabilities[i].host
              /\ vulnerabilities[i].severity
                    \in Canonical(backend[j].severity, SeverityVocabulary("internal"), "Unknown")
              /\ vulnerabilities[i].status
                    \in Canonical(backend[j].status, StatusVocabulary("internal"), "Open")
    /\ \A i \in DOMAIN cfVulnerabilities :
          /\ cfVulnerabilities[i].severity
                \in Canonical(cfBackend[i].Severity, SeverityVocabulary("cloudflare"), "Unknown")
          /\ cfVulnerabilities[i].status
                \in Canonical(cfBackend[i].Status, StatusVocabulary("cloudflare"), "Open")

(***************************************************************************)
(* The free-text axis alone (SpecSearch): findings that carry a word in    *)
(* one field each, and search terms in another case and with spaces        *)
(* around them.                                                            *)
(***************************************************************************)
SearchBaseRow == Row("XSS", "h1", "", "High", "Open", "", "", "")
SearchRows ==
    {SearchBaseRow} \cup
    { [ SearchBaseRow EXCEPT ![field] = "Amy" ] :
        field \in {"name", "description", "host", "port", "severity", "status",
                   "assigned_to", "comments", "owner"} }
SearchTerms == {"", "AMY", " XSS", " "}

\* the search box: setFilters({...filters, searchTerm})
TypeSearchTerm == \E x \in SearchTerms : SetFiltersTo([filters EXCEPT !.searchTerm = x])

InitSearch ==
    /\ page = "findings"
    /\ backend \in SeqsUpTo(SearchRows, MaxFindings)
    /\ HookInit /\ PageInit /\ CloudflareInit /\ ApiInit
    /\ cfBackend = <<>>
    /\ retest = NoRetest

NextSearch == Mount \/ LoadOk \/ LoadFail \/ TypeSearchTerm

SpecSearch == InitSearch /\ [][NextSearch]_vars

\* the eight fields of a finding, one after the other with a space between
FieldsJoined(v) ==
    Chars[v.name] \o <<" ">> \o Chars[v.description] \o <<" ">> \o Chars[v.host] \o <<" ">>
      \o Chars[v.port] \o <<" ">> \o Chars[v.severity] \o <<" ">> \o Chars[v.status]
      \o <<" ">> \o Chars[v.assigned_to] \o <<" ">> \o Chars[v.comments]

\* two characters are the same letter, in whatever case
SameLetter(a, b) ==
    \/ a = b
    \/ \E i \in DOMAIN UpperChars :
          \/ a = UpperChars[i] /\ b = LowerChars[i]
          \/ a = LowerChars[i] /\ b = UpperChars[i]

\* term occurs in text, compared case-insensitively
OccursIn(term, text) ==
    \E i \in 0..(Len(text) - Len(term)) :
        \A k \in 1..Len(term) : SameLetter(text[i + k], term[k])

\* a term without its leading and trailing spaces
WithoutSurroundingSpaces(term) ==
    LET inked == { i \in DOMAIN term : term[i] # " " } IN
    IF inked = {} THEN <<>>
    ELSE SubSeq(term, CHOOSE i \in inked : \A j \in inked : i <= j,
                      CHOOSE i \in inked : \A j \in inked : j <= i)

\* the finding is in the filtered list
Retained(v) == \E j \in DOMAIN filteredVulnerabilities : filteredVulnerabilities[j] = v

\* C15 as stated: when a search term is set, a finding is retained if and
\* only if the term occurs, case-insensitively, in the concatenation of its
\* name, description, host, port, severity, status, assignee and comments.
C15_SearchTermOccurs ==
    filters.searchTerm # "" =>
        \A i \in DOMAIN vulnerabilities :
            Retained(vulnerabilities[i])
                <=> OccursIn(Chars[filters.searchTerm], FieldsJoined(vulnerabilities[i]))

\* C15 as amended: when a search term is set, a finding is retained if and
\* only if the term without its leading and trailing whitespace occurs,
\* case-insensitively, in its name, description, host, port, severity,
\* status, assignee and comments joined by single spaces.
C15_TrimmedSearchTermOccurs ==
    filters.searchTerm # "" =>
        \A i \in DOMAIN vulnerabilities :
            Retained(vulnerabilities[i])
                <=> OccursIn(WithoutSurroundingSpaces(Chars[filters.searchTerm]),
                             FieldsJoined(vulnerabilities[i]))

\* the term " XSS" keeps the finding named XSS, which it matches only without
\* its leading space, and drops the one named otherwise
C15_Witness ==
    /\ filters.searchTerm = " XSS"
    /\ Len(vulnerabilities) = 2
    /\ Len(filteredVulnerabilities) = 1
    /\ filteredVulnerabilities[1].name = "XSS"
    /\ ~OccursIn(Chars[" XSS"], FieldsJoined(filteredVulnerabilities[1]))

\* a grouping key that is missing or empty, or the sentinel itself
IsUnassignedKey(k) == k = "" \/ k = "Unassigned"

SortModes == {"workload", "overdue", "completion"}

\* a list of numbers that never goes up
NonIncreasing(ns) == \A i, j \in DOMAIN ns : i < j => ns[i] >= ns[j]

\* the keys of an assignee listing under a mode: total, overdue count,
\* completion rate
AssigneeSortKeys(listing, mode) ==
    [ i \in DOMAIN listing |->
        IF mode = "overdue" THEN listing[i].overdue
        ELSE IF mode = "completion" THEN listing[i].completionRate
        ELSE listing[i].total ]

\* the keys of an owner listing under a mode: total, overdue count, fix rate
OwnerSortKeys(listing, mode) ==
    [ i \in DOMAIN listing |->
        IF mode = "overdue"
        THEN Cardinality({ n \in DOMAIN listing[i].vulnerabilities :
                             listing[i].vulnerabilities[n].days_overdue > 0 })
        ELSE IF mode = "completion" THEN listing[i].fixRate
        ELSE listing[i].totalFindings ]

\* the listings the assignee view shows for the loaded findings, one for
\* each value of its sort select; the owner view has no select and one listing
AssigneeListings == { AssigneeMetricsOf(filteredVulnerabilities, by) : by \in SortModes }
OwnerListings == { ownerData }

\* C17 as stated: in the owner view and in the assignee view the list shown
\* is sorted by the key of the selected mode, and for each of the modes total
\* count, overdue count and fix/completion rate the view has a listing sorted
\* by that mode's key, largest first.
C17_SortModesInBothViews ==
    /\ page = "assignees" =>
          /\ NonIncreasing(AssigneeSortKeys(assigneeMetrics, sortBy))
          /\ \A mode \in SortModes :
                \E listing \in AssigneeListings :
                    NonIncreasing(AssigneeSortKeys(listing, mode))
    /\ page = "owners" =>
          /\ NonIncreasing(OwnerSortKeys(ownerData, "workload"))
          /\ \A mode \in SortModes :
                \E listing \in OwnerListings :
                    NonIncreasing(OwnerSortKeys(listing, mode))

\* C17 as amended: the assignee view is sorted by the key of the selected
\* mode (total count, overdue count or completion rate, largest first), and
\* each mode gives a listing sorted by its key; the owner view is always
\* sorted by total count, largest first.
C17_SortModesOfAssigneeView ==
    /\ page = "assignees" =>
          /\ NonIncreasing(AssigneeSortKeys(assigneeMetrics, sortBy))
          /\ \A mode \in SortModes :
                NonIncreasing(AssigneeSortKeys(
                    AssigneeMetricsOf(filteredVulnerabilities, mode), mode))
    /\ page = "owners" => NonIncreasing(OwnerSortKeys(ownerData, "workload"))

\* sorting by overdue is selected and puts first a group that has fewer
\* findings than the one after it
C17_Witness ==
    /\ page = "assignees"
    /\ sortBy = "overdue"
    /\ Len(assigneeMetrics) = 2
    /\ assigneeMetrics[1].overdue > assigneeMetrics[2].overdue
    /\ assigneeMetrics[1].total < assigneeMetrics[2].total

(***************************************************************************)
(* The owner dashboard with up to four owners and unassigned findings      *)
(* (SpecRisk), for the insights computed from ownerData.                   *)
(***************************************************************************)
MaxRiskFindings == 4

RiskRows ==
    { Row("XSS", "h1", x[1], x[2], x[3], "", "", "") :
        x \in { <<"", "Critical", "Open">>, <<"Ops", "Critical", "Open">>,
                <<"Ops", "High", "Fixed">>, <<"Web", "High", "Fixed">>,
                <<"amy", "Critical", "Open">>, <<"bob", "High", "Fixed">> } }

InitRisk ==
    /\ page = "owners"
    /\ backend \in SeqsUpTo(RiskRows, MaxRiskFindings)
    /\ HookInit /\ PageInit /\ CloudflareInit /\ ApiInit
    /\ cfBackend = <<>>
    /\ retest = NoRetest

NextRisk == Mount \/ LoadOk \/ LoadFail

SpecRisk == InitRisk /\ [][NextRisk]_vars

\* the score the contract gives a group with these counts
ContractScore(critical, high, open) == critical * 10 + high * 5 + open

\* the score of a set of counts does not go down when one count goes up
ScoreMonotone ==
    \A c, h, o \in 0..MaxRiskFindings :
        LET at(x, y, z) == RiskScore([ criticalCount |-> x, highCount |-> y,
                                       openFindings |-> z ])
        IN /\ at(c + 1, h, o) >= at(c, h, o)
           /\ at(c, h + 1, o) >= at(c, h, o)
           /\ at(c, h, o + 1) >= at(c, h, o)

\* risky is the top of groups: it lists min(3, number of groups) of them with
\* their contract scores, largest first, and no group it leaves out has a
\* higher score than one it lists
IsTopRisky(risky, groups) ==
    /\ Len(risky) = (IF Len(groups) < 3 THEN Len(groups) ELSE 3)
    /\ \A i \in DOMAIN risky :
          /\ \E k \in DOMAIN groups :
                /\ groups[k].owner = risky[i].owner
                /\ risky[i].riskScore
                      = ContractScore(groups[k].criticalCount, groups[k].highCount,
                                      groups[k].openFindings)
          /\ \A j \in DOMAIN risky : i < j => risky[i].riskScore >= risky[j].riskScore
          /\ \A j \in DOMAIN risky : i # j => risky[i].owner # risky[j].owner
    /\ \A k \in DOMAIN groups :
          (\A i \in DOMAIN risky : risky[i].owner # groups[k].owner) =>
              \A i \in DOMAIN risky :
                  ContractScore(groups[k].criticalCount, groups[k].highCount,
                                groups[k].openFindings) <= risky[i].riskScore

\* C18 as stated: the risk score of an owner group is critical x 10 +
\* high x 5 + open, and the top risky owners are the min(3, number of groups)
\* groups of highest score, largest first, none left out scoring higher.
C18_TopRiskyOfAllGroups ==
    /\ ScoreMonotone
    /\ IsTopRisky(riskyOwners, ownerData)

\* C18 as amended: the same, over the owner groups other than "Unassigned".
C18_TopRiskyOfNamedOwners ==
    /\ ScoreMonotone
    /\ IsTopRisky(riskyOwners, SelectSeq(ownerData, LAMBDA o : o.owner # "Unassigned"))

\* four owners: the list has three of them, led by an owner whose group is
\* not the first of ownerData, and the owner left out scores less than the leader
C18_Witness ==
    /\ Len(ownerData) = 4
    /\ Len(riskyOwners) = 3
    /\ riskyOwners[1].owner # ownerData[1].owner
    /\ \E k \in DOMAIN ownerData :
          /\ \A i \in DOMAIN riskyOwners : riskyOwners[i].owner # ownerData[k].owner
          /\ RiskScore(ownerData[k]) < riskyOwners[1].riskScore

(***************************************************************************)
(* The SLA tracker with more breaching assignees than the ranking holds    *)
(* (SpecBreaches).  The ranking depends on the assignees' names only       *)
(* through which findings share one, so the feeds are those in which the   *)
(* names make their first appearance in the order of BreachNames.          *)
(***************************************************************************)
MaxBreachFindings == 7

BreachNames == <<"", "amy", "bob", "cat", "dan", "eve">>

\* a finding of the assignee that is past its threshold (Critical: 1 day)
BreachedRow(assignee) == Row("XSS", "h1", "", "Critical", "Open", assignee, "", "2")

\* a finding of amy that is within its threshold
OnTrackRow == Row("XSS", "h1", "", "Low", "Open", "amy", "", "0")

\* the rows that may follow the feed s: a finding within its threshold, a
\* breached one of a name already there, or of the next name
BreachRowsAfter(s) ==
    LET used == { k \in DOMAIN BreachNames :
                    \E i \in DOMAIN s : s[i] = BreachedRow(BreachNames[k]) }
        next == { k \in DOMAIN BreachNames : k = Cardinality(used) + 1 }
    IN {OnTrackRow} \cup { BreachedRow(BreachNames[k]) : k \in used \cup next }

\* the feeds of exactly n rows
RECURSIVE BreachFeeds(_)
BreachFeeds(n) ==
    IF n = 0 THEN { <<>> }
    ELSE UNION { { Append(s, row) : row \in BreachRowsAfter(s) } : s \in BreachFeeds(n - 1) }

InitBreaches ==
    /\ page = "sla"
    /\ backend \in UNION { BreachFeeds(n) : n \in 0..MaxBreachFindings }
    /\ HookInit /\ PageInit /\ CloudflareInit /\ ApiInit
    /\ cfBackend = <<>>
    /\ retest = NoRetest

NextBreaches == Mount \/ LoadOk \/ LoadFail

SpecBreaches == InitBreaches /\ [][NextBreaches]_vars

\* the number of breached findings of an assignee ("Unassigned": of nobody)
BreachedFindingsOf(assignee) ==
    Cardinality({ i \in DOMAIN filteredVulnerabilities :
                    /\ filteredVulnerabilities[i].days_overdue
                          > SlaThreshold(filteredVulnerabilities[i])
                    /\ \/ filteredVulnerabilities[i].assigned_to = assignee
                       \/ /\ assignee = "Unassigned"
                          /\ filteredVulnerabilities[i].assigned_to = "" })

\* the assignees findings can have
Assignees == { IF BreachNames[k] = "" THEN "Unassigned" ELSE BreachNames[k] :
                 k \in DOMAIN BreachNames }

\* C19: the ranking of the top breaching assignees has at most 5 entries,
\* each an assignee with the number of that assignee's breached findings,
\* no assignee twice, the numbers never going up, and no assignee left out has
\* more breached findings than a listed one.
C19_TopBreachingAssignees ==
    LET top == slaMetrics.topBreaches IN
    /\ Len(top) <= 5
    /\ \A i \in DOMAIN top :
          /\ top[i][1] \in Assignees
          /\ top[i][2] = BreachedFindingsOf(top[i][1])
          /\ top[i][2] > 0
          /\ \A j \in DOMAIN top : i < j => top[i][2] >= top[j][2]
          /\ \A j \in DOMAIN top : i # j => top[i][1] # top[j][1]
    /\ \A a \in Assignees :
          (\A i \in DOMAIN top : top[i][1] # a) =>
              \A i \in DOMAIN top : BreachedFindingsOf(a) <= top[i][2]

\* six assignees have breached findings: the ranking holds five, led by one
\* with two breaches who was not the first in the feed, and leaves out one
\* with a single breach
C19_Witness ==
    /\ Len(assigneeBreaches) = 6
    /\ Len(slaMetrics.topBreaches) = 5
    /\ slaMetrics.topBreaches[1][2] = 2
    /\ slaMetrics.topBreaches[1][1] # assigneeBreaches[1][1]
    /\ \E k \in DOMAIN assigneeBreaches :
          /\ assigneeBreaches[k][2] = 1
          /\ \A i \in DOMAIN slaMetrics.topBreaches :
                slaMetrics.topBreaches[i][1] # assigneeBreaches[k][1]

\* two requests for the same operation on the same finding
SameOperation(a, r) ==
    a.method = r.method /\ a.endpoint = r.endpoint /\ a.target = r.target

\* the requests a handler may send for the operation of request r: one, or
\* for a retest one for each selected finding with that name and domain
RequestsAllowed(f, r) ==
    IF r.endpoint = "/api/cloudflare/retest"
    THEN Cardinality({ n \in DOMAIN f.items :
                         <<f.items[n].vulnerability_name, f.items[n].domain>> = r.target })
    ELSE 1

\* the handler of one user action has sent no operation more often than that
NoRepeat(f) ==
    \A k \in DOMAIN f.sent :
        Cardinality({ j \in DOMAIN f.sent : SameOperation(f.sent[j], f.sent[k]) })
            <= RequestsAllowed(f, f.sent[k])

\* the step shows the failure of the request it answers: a load sets the
\* page's error, an update sets the error or leaves the handler by the
\* exception, a retest adds a failed result (the summary refresh closing an
\* update or retest handler has no error state of its own)
Surfaced(request) ==
    CASE request.endpoint = "/vulnerabilities" -> error' # "null"
      [] request.endpoint = "/api/cloudflare/vulnerabilities" -> cfError' # "null"
      [] request.endpoint = "/api/cloudflare/summary" ->
            flow.kind = "load" => cfError' # "null"
      [] request.endpoint = "/update" -> error' # "null" /\ flow'.pc = "threw"
      [] request.endpoint = "/api/cloudflare/update" -> flow'.pc = "threw"
      [] OTHER ->
            /\ Len(flow'.results) = Len(flow.results) + 1
            /\ ~flow'.results[Len(flow'.results)].success
            /\ flow'.results[Len(flow'.results)].error # None

MaxAuthRequests == 2    \* requests in flight at a time (logins and loads)

\* App: the paths wrapped in <PrivateRoute>
ProtectedPaths ==
    {"/", "/host-based", "/analytics", "/assigned-to", "/vulnerability-based",
     "/business-owners"}

\* the paths the user may ask for
Paths == ProtectedPaths \cup {"/login", "/missing"}

\* App: <Route path=... element=...>
PageAt(path) ==
    CASE path = "/login" -> "login"
      [] path = "/" -> "findings"
      [] path = "/host-based" -> "hosts"
      [] path = "/analytics" -> "analytics"
      [] path = "/assigned-to" -> "assignees"
      [] path = "/vulnerability-based" -> "vulnerabilityBased"
      [] path = "/business-owners" -> "owners"
      [] OTHER -> "notfound"

\* the pages of the protected routes
ProtectedPages == { PageAt(path) : path \in ProtectedPaths }

\* a PrivateRoute that renders its children whatever localStorage holds
PrivateRoute_AlwaysRenders(token, path) == path

\* PrivateRoute: if (!authToken) return <Navigate to="/login" replace />
PrivateRoute(token, path) == IF token = None THEN "/login" ELSE path

\* Login's mount effect: if (authToken) navigate('/')
LoginMountEffect(token) == IF token # None THEN PrivateRoute(token, "/") ELSE "/login"

\* the path at which the router comes to rest when asked for a path
Routed(token, path) ==
    CASE path = "/login" -> LoginMountEffect(token)
      [] path \in ProtectedPaths ->
            LET to == PrivateRoute(token, path) IN
            IF to = "/login" THEN LoginMountEffect(token) ELSE to
      [] OTHER -> path

\* the router shows the path: a page that was not shown before is mounted
\* with its initial state
Show(token, path, fresh) ==
    LET to == Routed(token, path) IN
    /\ location' = to
    /\ page' = PageAt(to)
    /\ IF PageAt(to) = page
       THEN UNCHANGED <<hookVars, flow>>
       ELSE /\ vulnerabilities' = <<>>
            /\ loading' = TRUE
            /\ error' = "null"
            /\ filters' = EmptyFilters
            /\ pendingLoads' = 0
            /\ flow' = fresh

\* the user follows a link, goes back, or navigate(path) is called
Visit ==
    /\ \E path \in Paths :
         /\ PageAt(Routed(authToken, path)) # page
         /\ Show(authToken, path, NoFlow)
    /\ UNCHANGED <<backend, pageVars, cfVars, retest, authToken, sessionValid, inFlight,
                   lastStatus>>

\* POST /login with the credentials of the form
LoginRequest == [ method |-> "POST", endpoint |-> "/login", target |-> None, auth |-> None ]

\* handleLogin up to its await
LoginSubmit ==
    /\ page = "login"
    /\ Len(inFlight) < MaxAuthRequests
    /\ inFlight' = Append(inFlight, LoginRequest)
    /\ UNCHANGED <<page, backend, hookVars, pageVars, cfVars, retest, authToken, location,
                   sessionValid, lastStatus, flow>>

\* what the backend answers a login with: the body of each answer
LoginAnswers == {"success", "no token", "denied"}
LoginBody(kind) ==
    CASE kind = "success" -> [ status |-> "success", token |-> Jwt ]
      [] kind = "no token" -> [ status |-> "success", token |-> None ]
      [] OTHER -> [ status |-> "error", token |-> None ]

\* handleLogin after response.json(): if (data.status === 'success' && data.token)
\* localStorage.setItem('authToken', data.token); navigate('/'); else setError(...)
LoginResolves ==
    /\ Pending("/login") # {}
    /\ \E kind \in LoginAnswers :
         LET data == LoginBody(kind) IN
         /\ lastStatus' = kind
         /\ sessionValid' = (sessionValid \/ kind = "success")
         /\ IF data.status = "success" /\ data.token # None
            THEN /\ authToken' = data.token
                 /\ Show(data.token, "/", NoFlow)
            ELSE UNCHANGED <<authToken, location, page, hookVars, flow>>
    /\ inFlight' = Remove(inFlight, Oldest("/login"))
    /\ UNCHANGED <<backend, pageVars, cfVars, retest>>

\* handleLogin's catch (the fetch rejected): setError(...)
LoginRejects ==
    /\ Pending("/login") # {}
    /\ lastStatus' = "network"
    /\ inFlight' = Remove(inFlight, Oldest("/login"))
    /\ UNCHANGED <<page, backend, hookVars, pageVars, cfVars, retest, authToken, location,
                   sessionValid, flow>>

\* the flow after the Navbar's logout
LoggedOut == [ NoFlow EXCEPT !.kind = "logout", !.pc = "done" ]

\* Navbar.handleLogout (the button is there off /login, with a token):
\* localStorage.removeItem('authToken'); navigate('/login')
HandleLogout ==
    /\ location # "/login" /\ page # "login"
    /\ authToken # None
    /\ authToken' = None
    /\ Show(None, "/login", LoggedOut)
    /\ UNCHANGED <<backend, pageVars, cfVars, retest, sessionValid, inFlight, lastStatus>>

\* the loads in flight are all loads of the page that is shown
NoStaleLoad == Cardinality(Pending("/vulnerabilities")) = pendingLoads

\* the page's hook loads on mount
AuthMount == Len(inFlight) < MaxAuthRequests /\ Mount
AuthLoadOk == NoStaleLoad /\ LoadOk
AuthLoadFail == NoStaleLoad /\ LoadFail

\* the answer to a load of a page that has been left: handleResponse runs,
\* the setState calls of the hook reach no component
StaleLoadAnswered ==
    /\ ~NoStaleLoad
    /\ \E kind \in ResponseKinds(inFlight[Oldest("/vulnerabilities")]) : HandleResponse(kind)
    /\ inFlight' = Remove(inFlight, Oldest("/vulnerabilities"))
    /\ UNCHANGED <<page, backend, hookVars, pageVars, cfVars, retest, flow>>

\* the browser loads /login after handleResponse set window.location.href:
\* the document is replaced, its requests are dropped, Login mounts
LoginPageLoads ==
    /\ location = "/login" /\ page # "login"
    /\ inFlight' = <<>>
    /\ Show(authToken, "/login", NoFlow)
    /\ UNCHANGED <<backend, pageVars, cfVars, retest, authToken, sessionValid, lastStatus>>

\* the browser opens the application at any path, with or without a token
\* left in localStorage by an earlier visit
InitAuth ==
    /\ authToken \in {None, Jwt}
    /\ sessionValid \in { v \in BOOLEAN : v => authToken # None }
    /\ \E path \in Paths :
         /\ location = Routed(authToken, path)
         /\ page = PageAt(location)
    /\ backend \in SeqsUpTo(FlowRows, 1)
    /\ HookInit /\ PageInit /\ CloudflareInit
    /\ cfBackend = <<>>
    /\ retest = NoRetest
    /\ inFlight = <<>>
    /\ lastStatus = "none"
    /\ flow = NoFlow

NextAuth ==
    \/ Visit \/ LoginSubmit \/ LoginResolves \/ LoginRejects \/ HandleLogout
    \/ AuthMount \/ AuthLoadOk \/ AuthLoadFail \/ StaleLoadAnswered
    \/ SessionExpires \/ LoginPageLoads

SpecAuth == InitAuth /\ [][NextAuth]_vars

\* a protected route is showing its page
ProtectedPageShown == location \in ProtectedPaths /\ page = PageAt(location)

\* the step answers a login with status success and a token
SuccessfulLogin ==
    /\ \E request \in Answered : request.endpoint = "/login"
    /\ lastStatus' = "success"

\* C21: a protected route shows its page only while localStorage holds an
\* authToken; a step stores a token only if it is a successful login; after a
\* logout the token is absent and every protected route leads to /login, and
\* without a token every protected route leads to /login.
C21_ProtectedNeedsToken ==
    [][ /\ ProtectedPageShown => authToken # None
        /\ ProtectedPageShown' => authToken' # None
        /\ (authToken' # None /\ authToken' # authToken) => SuccessfulLogin
        /\ flow'.kind = "logout" =>
              /\ authToken' = None
              /\ location' = "/login"
        /\ authToken' = None =>
              \A path \in ProtectedPaths : Routed(authToken', path) = "/login"
      ]_vars

\* after a logout the user has asked for a login, which is still in flight,
\* and the session they left has not expired
C21_Witness ==
    /\ flow.kind = "logout"
    /\ authToken = None
    /\ page = "login"
    /\ sessionValid
    /\ Pending("/login") # {}

\* the step answers the request to an endpoint
Answers(endpoint) == \E request \in Answered : request.endpoint = endpoint

\* the step leaves updateVulnerabilities with the backend's success
UpdateSucceeded ==
    /\ lastStatus' = "200"
    /\ flow'.results # <<>>
    /\ flow'.results[1].success

\* C22: a step that answers the update request reloads the findings if the
\* backend reported success; if the request failed or the body says
\* success: false it sets the error, throws to the caller, sends nothing and
\* leaves the findings as they were; updateVulnerabilities never sends a
\* reload in any other step.
C22_ReloadOnlyAfterSuccess ==
    [][ /\ (Answers("/update") /\ UpdateSucceeded) =>
              /\ flow'.pc = "loading"
              /\ \E request \in Issued : IsFindingsFetch(request)
        /\ (Answers("/update") /\ ~UpdateSucceeded) =>
              /\ error' # "null"
              /\ flow'.pc = "threw"
              /\ Issued = {}
              /\ vulnerabilities' = vulnerabilities
        /\ (flow'.kind = "update" /\ \E request \in Issued : IsFindingsFetch(request)) =>
              Answers("/update") /\ UpdateSucceeded
      ]_vars

\* the backend has answered an update with success: false: the error is
\* shown, nothing is in flight and the findings loaded before are still held
C22_Witness ==
    /\ flow.kind = "update" /\ flow.pc = "threw"
    /\ lastStatus = "200"
    /\ flow.results = <<UpdateRefused>>
    /\ error # "null"
    /\ inFlight = <<>>
    /\ vulnerabilities # <<>>
    /\ Len(flow.sent) = 1

(***************************************************************************)
(* The dashboard's list, page by page (SpecPagination): the backend's rows *)
(* change between fetches, the user searches and turns pages.              *)
(***************************************************************************)
MaxListed == 21         \* rows the Cloudflare backend lists
MaxPageAsked == 4       \* the largest page number handed to goToPage

\* n backend rows that differ in their age, every other one on host h2
ListedRows(n) ==
    [ i \in 1..n |->
        [ Domain |-> IF i % 2 = 0 THEN "h2" ELSE "h1", VulnerabilityName |-> "XSS",
          Severity |-> "high", Status |-> "Open", AgingDays |-> <<i>> ] ]

\* the lengths of the backend's list in the model: none, one, a full page,
\* one more, and the longest
ListedSizes == {0, 1, PageSize, PageSize + 1, MaxListed}

\* the state the pagination actions leave alone
cfDataVars == <<cfBackend, cfVulnerabilities, cfLoading, cfError, cfSummary, cfPending>>

\* setCurrentPage(next), and the render that follows
SetCurrentPage(next) ==
    /\ page = "cloudflare"
    /\ currentPage' = PageAfterRender(cfFilteredVulnerabilities, next)
    /\ UNCHANGED <<page, backend, hookVars, pageVars, cfDataVars, cfSelectedRows, cfFilters,
                   cfSearchTerm, retestDialog, runs, retest, apiVars, flow>>

\* goToPage(page): setCurrentPage(Math.max(1, Math.min(page, pagination.totalPages)))
GoToPage ==
    \E asked \in 0..MaxPageAsked :
        SetCurrentPage(Max2(1, Min2(asked, pagination.totalPages)))

\* goToNextPage: if (pagination.hasNextPage) setCurrentPage(currentPage + 1)
GoToNextPage ==
    SetCurrentPage(IF pagination.hasNextPage THEN currentPage + 1 ELSE currentPage)

\* goToPrevPage: if (pagination.hasPrevPage) setCurrentPage(currentPage - 1)
GoToPrevPage ==
    SetCurrentPage(IF pagination.hasPrevPage THEN currentPage - 1 ELSE currentPage)

\* resetPage: setCurrentPage(1)
ResetPage == SetCurrentPage(1)

\* the terms typed into the search box in the model
CfSearchTerms == {"", "H2"}

\* the search box: setSearchTerm(e.target.value), and the render that follows
SetCfSearchTerm ==
    /\ page = "cloudflare"
    /\ \E term \in CfSearchTerms :
         /\ cfSearchTerm' = term
         /\ currentPage' = PageAfterRender(CfFilteredOf(cfVulnerabilities, term), currentPage)
    /\ UNCHANGED <<page, backend, hookVars, pageVars, cfDataVars, cfSelectedRows, cfFilters,
                   retestDialog, runs, retest, apiVars, flow>>

\* findings appear at and disappear from the backend between two fetches
ListedRowsChange ==
    /\ page = "cloudflare"
    /\ inFlight = <<>>
    /\ \E n \in ListedSizes : cfBackend' = ListedRows(n)
    /\ UNCHANGED <<page, backend, hookVars, pageVars, cfVulnerabilities, cfLoading, cfError,
                   cfSummary, cfSelectedRows, cfPending, cfViewVars, retest, apiVars, flow>>

InitPagination ==
    /\ page = "cloudflare"
    /\ backend = <<>>
    /\ \E n \in ListedSizes : cfBackend = ListedRows(n)
    /\ HookInit /\ PageInit /\ CloudflareInit /\ ApiInit
    /\ retest = NoRetest

NextPagination ==
    \/ CfMount \/ CfRefresh \/ CfFetchOk \/ ListedRowsChange
    \/ SetCfSearchTerm \/ GoToPage \/ GoToNextPage \/ GoToPrevPage \/ ResetPage

SpecPagination == InitPagination /\ [][NextPagination]_vars

\* the items of page number n of a list: those at the indices
\* (n - 1) * PageSize up to, and without, min(n * PageSize, length)
ItemsOfPage(data, n) ==
    LET first == (n - 1) * PageSize
        last == Min2(n * PageSize, Len(data))
    IN IF last <= first THEN <<>> ELSE [ k \in 1..(last - first) |-> data[first + k] ]

\* C23: the currentPage that usePagination reports lies between 1 and
\* max(1, totalPages), and paginatedData is exactly the items of that page.
C23_ReportedPageShown ==
    /\ pagination.currentPage >= 1
    /\ pagination.currentPage <= Max2(1, TotalPages(Len(cfFilteredVulnerabilities)))
    /\ paginatedVulnerabilities
          = ItemsOfPage(cfFilteredVulnerabilities, pagination.currentPage)

\* the list has become empty while the user was on its third page: the
\* page state is still 3, the page reported is 1
C23_Witness ==
    /\ currentPage = 3
    /\ cfVulnerabilities = <<>>
    /\ ~cfLoading
    /\ cfError = "null"
    /\ pagination.currentPage = 1
    /\ pagination.totalPages = 0

(***************************************************************************)
(* Bulk status updates (SpecBulkUpdate).  On the findings page the table   *)
(* VulnerabilityTable holds the selection and hands the selected findings  *)
(* to BulkActions, whose handleStatusChange awaits the page's              *)
(* handleBulkUpdate (which awaits updateVulnerabilities and catches its    *)
(* error) and then calls onClearSelection.  On the Cloudflare dashboard    *)
(* handleBulkStatusUpdate does it all.                                     *)
(***************************************************************************)
\* the key of a finding in the table's selection
TableRowKey(vuln) == <<vuln.name, vuln.host>>

\* the findings page shows its table (no loader, no error in its place)
TableShown == page = "findings" /\ ~loading /\ error = "null"

\* the table's checkbox of a row
TableToggleRow ==
    /\ TableShown
    /\ \E i \in DOMAIN filteredVulnerabilities :
         tableSelection' = Toggle(tableSelection, TableRowKey(filteredVulnerabilities[i]))
    /\ UNCHANGED <<page, backend, hookVars, ownerFilters, sortBy, cfVars, retest, apiVars,
                   flow>>

\* selectedVulnerabilities, as the table hands them to BulkActions
SelectedVulnerabilities ==
    SelectSeq(filteredVulnerabilities, LAMBDA v : TableRowKey(v) \in tableSelection)

\* POST /update with the updates of the selected findings
BulkUpdateRequest(selected) == ApiRequest("POST", "/update", MapSeq(selected, TableRowKey))

\* BulkActions.handleStatusChange up to the await of the request
BulkStatusChangeStart ==
    /\ TableShown /\ HandlerIdle
    /\ SelectedVulnerabilities # <<>>
    /\ inFlight' = <<BulkUpdateRequest(SelectedVulnerabilities)>>
    /\ flow' = [ NoFlow EXCEPT !.kind = "update", !.pc = "updating",
                               !.items = SelectedVulnerabilities,
                               !.sent = <<BulkUpdateRequest(SelectedVulnerabilities)>>,
                               !.selectedRows = tableSelection ]
    /\ UNCHANGED <<page, backend, hookVars, pageVars, cfVars, retest,
                   authToken, location, sessionValid, lastStatus>>

\* POST /api/cloudflare/update with the updates of the selected findings
CfBulkUpdateRequest(selected) ==
    ApiRequest("POST", "/api/cloudflare/update",
               MapSeq(selected, LAMBDA v : <<v.vulnerability_name, v.domain>>))

\* handleBulkStatusUpdate(newStatus) up to its await
CfBulkUpdateStart ==
    /\ page = "cloudflare" /\ HandlerIdle
    /\ GetSelectedVulnerabilities # <<>>
    /\ \E newStatus \in UpdateStatusChoices :
         /\ inFlight' = <<CfBulkUpdateRequest(GetSelectedVulnerabilities)>>
         /\ flow' = [ NoFlow EXCEPT
                        !.kind = "cfBulkUpdate", !.pc = "updating",
                        !.items = MapSeq(GetSelectedVulnerabilities,
                                         LAMBDA v : [ v EXCEPT !.status = newStatus ]),
                        !.sent = <<CfBulkUpdateRequest(GetSelectedVulnerabilities)>>,
                        !.selectedRows = cfSelectedRows ]
    /\ UNCHANGED <<page, backend, hookVars, pageVars, cfVars, retest,
                   authToken, location, sessionValid, lastStatus>>

\* prev.map(v => selectedRows.has(getRowKey(v)) ? {...v, status: newStatus} : v)
WithStatusOfSelected(vulns, selectedRows, newStatus) ==
    [ i \in DOMAIN vulns |->
        IF GetRowKey(vulns[i]) \in selectedRows
        THEN [ vulns[i] EXCEPT !.status = newStatus ]
        ELSE vulns[i] ] \o <<>>

\* updateVulnerabilities resolved: the findings are replaced in memory, the
\* selection is emptied, then await cloudflareService.getSummary()
CfBulkUpdateOk ==
    /\ flow.kind = "cfBulkUpdate" /\ flow.pc = "updating"
    /\ "200" \in ResponseKinds(inFlight[Oldest("/api/cloudflare/update")])
    /\ HandleResponse("200")
    /\ cfVulnerabilities' = WithStatusOfSelected(cfVulnerabilities, flow.selectedRows,
                                                 flow.items[1].status)
    /\ cfSelectedRows' = {}
    /\ inFlight' = Append(Remove(inFlight, Oldest("/api/cloudflare/update")), CfSummaryRequest)
    /\ flow' = [ flow EXCEPT !.pc = "summary", !.sent = Append(@, CfSummaryRequest),
                             !.mutated = TRUE ]
    /\ UNCHANGED <<page, backend, hookVars, pageVars, cfBackend, cfLoading, cfError,
                   cfSummary, cfPending, cfViewVars, retest>>

\* updateVulnerabilities rejected: the catch shows a toast
CfBulkUpdateFail ==
    /\ flow.kind = "cfBulkUpdate" /\ flow.pc = "updating"
    /\ \E kind \in ResponseKinds(inFlight[Oldest("/api/cloudflare/update")]) :
         /\ Rejects(kind)
         /\ HandleResponse(kind)
    /\ inFlight' = Remove(inFlight, Oldest("/api/cloudflare/update"))
    /\ flow' = [ flow EXCEPT !.pc = "done" ]
    /\ UNCHANGED <<page, backend, hookVars, pageVars, cfVars, retest>>

InitBulkUpdate == InitFlows

NextBulkUpdate ==
    \/ Mount \/ LoadOk \/ LoadFail
    \/ TableToggleRow \/ BulkStatusChangeStart \/ UpdateOk \/ UpdateFail
    \/ CfMount \/ CfFetchOk \/ CfFetchFail \/ ToggleRowSelection
    \/ CfBulkUpdateStart \/ CfBulkUpdateOk \/ CfBulkUpdateFail \/ CfSummaryOk \/ CfSummaryFail
    \/ SessionExpires

SpecBulkUpdate == InitBulkUpdate /\ [][NextBulkUpdate]_vars

\* the step answers the request of a bulk update
AnswersBulkUpdate == Answers("/update") \/ Answers("/api/cloudflare/update")

\* the bulk update that the step answers has succeeded at the backend
BulkUpdateSucceeded ==
    \/ Answers("/update") /\ UpdateSucceeded
    \/ Answers("/api/cloudflare/update") /\ lastStatus' = "200"

\* C24: a step that answers a bulk update which failed at the backend leaves
\* the findings in memory and the row selection as they were; a step that
\* answers a request empties a non-empty selection only if it answers a bulk
\* update that succeeded.
C24_FailedBulkUpdateKeepsSelection ==
    [][ /\ (AnswersBulkUpdate /\ ~BulkUpdateSucceeded) =>
              /\ vulnerabilities' = vulnerabilities
              /\ cfVulnerabilities' = cfVulnerabilities
              /\ tableSelection' = tableSelection
              /\ cfSelectedRows' = cfSelectedRows
        /\ (Answered # {} /\ flow.kind \in {"update", "cfBulkUpdate"}
              /\ \/ tableSelection # {} /\ tableSelection' = {}
                 \/ cfSelectedRows # {} /\ cfSelectedRows' = {}) =>
              BulkUpdateSucceeded
      ]_vars

(***************************************************************************)
(* Selecting rows of the dashboard (SpecSelection): a list of two pages,   *)
(* the row checkboxes, the select-all checkbox of the header, the search   *)
(* box, the page buttons and bulk status updates of the selection.         *)
(***************************************************************************)
MaxToggled == 1         \* the rows of a page, from its top, whose checkbox is used

\* the names and the domains of the backend's rows
SelectionNames == <<"XSS", "SQLi", "CSRF", "SSRF", "RCE", "LFI">>
SelectionDomains == <<"h1", "h2">>

\* the backend's rows: every name on every domain, domain by domain
SelectionRows ==
    [ i \in 1..(Len(SelectionDomains) * Len(SelectionNames)) |->
        [ Domain |-> SelectionDomains[((i - 1) \div Len(SelectionNames)) + 1],
          VulnerabilityName |-> SelectionNames[((i - 1) % Len(SelectionNames)) + 1],
          Severity |-> "high", Status |-> "Open", AgingDays |-> <<i>> ] ]

\* toggleRowSelection, from the checkbox of one of the first rows of the page
ToggleListedRow ==
    /\ page = "cloudflare"
    /\ \E i \in DOMAIN paginatedVulnerabilities \cap 1..MaxToggled :
         cfSelectedRows' = Toggle(cfSelectedRows, GetRowKey(paginatedVulnerabilities[i]))
    /\ UNCHANGED <<page, backend, hookVars, pageVars, cfBackend, cfVulnerabilities,
                   cfLoading, cfError, cfSummary, cfPending, retest, apiVars, flow,
                   cfViewVars>>

\* the checked attribute of the header's select-all checkbox
SelectAllChecked ==
    /\ Cardinality(cfSelectedRows) = Len(paginatedVulnerabilities)
    /\ Len(paginatedVulnerabilities) > 0

\* toggleSelectAll
ToggleSelectAll ==
    /\ page = "cloudflare"
    /\ cfSelectedRows' =
         IF Cardinality(cfSelectedRows) = Len(paginatedVulnerabilities)
         THEN {}
         ELSE { GetRowKey(paginatedVulnerabilities[i]) : i \in DOMAIN paginatedVulnerabilities }
    /\ UNCHANGED <<page, backend, hookVars, pageVars, cfBackend, cfVulnerabilities,
                   cfLoading, cfError, cfSummary, cfPending, retest, apiVars, flow,
                   cfViewVars>>

\* a bulk status update, until one has succeeded
FirstBulkUpdateStart ==
    /\ ~flow.mutated
    /\ CfBulkUpdateStart

InitSelection ==
    /\ page = "cloudflare"
    /\ backend = <<>>
    /\ cfBackend = SelectionRows
    /\ HookInit /\ PageInit /\ CloudflareInit /\ ApiInit
    /\ retest = NoRetest

NextSelection ==
    \/ CfMount \/ CfFetchOk
    \/ ToggleListedRow \/ ToggleSelectAll
    \/ SetCfSearchTerm \/ GoToNextPage \/ GoToPrevPage
    \/ FirstBulkUpdateStart \/ CfBulkUpdateOk \/ CfBulkUpdateFail \/ CfSummaryOk \/ CfSummaryFail

SpecSelection == InitSelection /\ [][NextSelection]_vars

\* the update of the finding is among those of the request
UpdateSentFor(vuln, request) ==
    <<vuln.vulnerability_name, vuln.domain>> \in Range(request.target)

\* C26: when a bulk status update of the dashboard succeeds, every finding
\* whose update was sent to the backend has the new status in memory, and
\* every finding whose update was not sent is in memory as it was.
C26_ChangedIsSent ==
    [][ (flow.kind = "cfBulkUpdate" /\ Answers("/api/cloudflare/update")
           /\ lastStatus' = "200") =>
          /\ Len(cfVulnerabilities') = Len(cfVulnerabilities)
          /\ \A i \in DOMAIN cfVulnerabilities :
               IF UpdateSentFor(cfVulnerabilities[i], flow.sent[1])
               THEN cfVulnerabilities'[i].status = flow.items[1].status
               ELSE cfVulnerabilities'[i] = cfVulnerabilities[i]
      ]_vars

\* every row of the page shown is selected, and there is one
PageSelected ==
    /\ Len(paginatedVulnerabilities) > 0
    /\ \A i \in DOMAIN paginatedVulnerabilities :
         GetRowKey(paginatedVulnerabilities[i]) \in cfSelectedRows

\* C27: the select-all checkbox is checked exactly if the page shown has rows
\* and all of them are selected; a click on it while it is unchecked leaves
\* every row of the page selected, a click while it is checked leaves none
\* of them selected.
C27_SelectAllMirrorsPage ==
    /\ [](SelectAllChecked <=> PageSelected)
    /\ [][ ToggleSelectAll =>
             \A i \in DOMAIN paginatedVulnerabilities :
                GetRowKey(paginatedVulnerabilities[i]) \in cfSelectedRows'
                   <=> ~SelectAllChecked
         ]_vars

(***************************************************************************)
(* Overlapping fetches of the dashboard (SpecOverlap): the user changes    *)
(* the server-side domain filter while fetches are in flight, and the      *)
(* responses come back in any order.                                       *)
(***************************************************************************)
\* the values of the domain Select: 'all' and the domains
DomainValues == {"all", "h1", "h2"}

\* setFilters(prev => ({ ...prev, domain: value === 'all' ? undefined : value })),
\* then the effect on the new fetchData: setLoading(true); setError(null) and
\* the two requests
SetCfFilters ==
    /\ page = "cloudflare"
    /\ location # "/login"
    /\ flow.kind # "none"
    /\ cfPending < MaxPending
    /\ \E value \in DomainValues :
         LET filtersNow == IF value = "all" THEN None ELSE << <<"domain", value>> >> IN
         /\ cfFilters' = filtersNow
         /\ inFlight' = inFlight \o <<CfVulnerabilitiesRequestFor(filtersNow), CfSummaryRequest>>
         /\ flow' = [ NoFlow EXCEPT !.kind = "load", !.pc = "loading",
                          !.sent = <<CfVulnerabilitiesRequestFor(filtersNow), CfSummaryRequest>> ]
    /\ cfLoading' = TRUE
    /\ cfError' = "null"
    /\ cfPending' = cfPending + 1
    /\ UNCHANGED <<page, backend, hookVars, pageVars, cfBackend, cfVulnerabilities,
                   cfSummary, cfSelectedRows, retest, authToken, location, sessionValid,
                   lastStatus, cfSearchTerm, currentPage, retestDialog, runs>>

\* the latest request in flight to an endpoint
Latest(endpoint) == CHOOSE i \in Pending(endpoint) : \A j \in Pending(endpoint) : i >= j

\* fetchData after Promise.all resolved, for the latest fetch while an older
\* one is still in flight
CfLaterFetchOk ==
    /\ page = "cloudflare"
    /\ CfFetchPending
    /\ cfPending > 1
    /\ "200" \in ResponseKinds(inFlight[Latest("/api/cloudflare/vulnerabilities")])
    /\ cfVulnerabilities' = GetVulnerabilities(
           ListedFor(cfBackend, inFlight[Latest("/api/cloudflare/vulnerabilities")].target))
    /\ cfSummary' = TransformSummary(BackendSummary(cfBackend))
    /\ cfSelectedRows' = {}
    /\ cfLoading' = FALSE
    /\ cfPending' = cfPending - 1
    /\ inFlight' = Remove(Remove(inFlight, Latest("/api/cloudflare/summary")),
                          Latest("/api/cloudflare/vulnerabilities"))
    /\ HandleResponse("200")
    /\ flow' = AfterLoad(flow, cfPending - 1)
    /\ currentPage' = PageAfterRender(CfFilteredOf(cfVulnerabilities', cfSearchTerm),
                                      currentPage)
    /\ UNCHANGED <<page, backend, hookVars, pageVars, cfBackend, cfError, retest,
                   cfFilters, cfSearchTerm, retestDialog, runs>>

InitOverlap ==
    /\ page = "cloudflare"
    /\ backend = <<>>
    /\ cfBackend \in SeqsUpTo(CfFlowRows, MaxCfFindings)
    /\ HookInit /\ PageInit /\ CloudflareInit /\ ApiInit
    /\ retest = NoRetest

NextOverlap ==
    \/ CfMount \/ CfRefresh \/ SetCfFilters
    \/ CfFetchOk \/ CfLaterFetchOk \/ CfFetchFail

SpecOverlap == InitOverlap /\ [][NextOverlap]_vars

\* C25: once every fetch of the dashboard has completed, and none has
\* failed since the last one was started, the findings in memory are the
\* backend's answer for the filters that are set, which are those of the
\* request made last.
C25_LatestFiltersShown ==
    (flow.kind # "none" /\ cfPending = 0 /\ cfError = "null") =>
        cfVulnerabilities = GetVulnerabilities(ListedFor(cfBackend, cfFilters))

(***************************************************************************)
(* The loading flag and the fetches in flight (SpecLoad).                  *)
(***************************************************************************)
\* C30: once the page has started its first fetch, its loading flag is set
\* exactly while a fetch of findings is in flight: it is not cleared while
\* another fetch is still outstanding, and it is clear when none is.
C30_LoadingWhileFetching ==
    flow.kind # "none" =>
        /\ UsesHook => (loading <=> pendingLoads > 0)
        /\ page = "cloudflare" => (cfLoading <=> cfPending > 0)

(***************************************************************************)
(* What a retest result reports (SpecRetest).                              *)
(***************************************************************************)
\* the backend's response to the call reported success
BackendReportedSuccess(outcome) ==
    /\ outcome.kind = "resolved"
    /\ outcome.body # None
    /\ outcome.body[1].success

\* C29: a retest result has success = true only if the call it belongs to
\* was answered by the backend with success = true; a call answered with
\* success = false, or one that failed, gives a result with success = false.
C29_SuccessIsBackendSuccess ==
    \A k \in DOMAIN retest.results \cap DOMAIN retest.calls :
        retest.results[k].success <=> BackendReportedSuccess(retest.calls[k])

(***************************************************************************)
(* Retest runs and the retest dialog (SpecRetestRuns).  Each call of       *)
(* handleSingleRetest or handleBulkRetest is a run of its own, with its    *)
(* own results array; all runs write the one dialog state.  The dialog is  *)
(* modal, and the user can dismiss it (onOpenChange) while a run goes on   *)
(* and start another retest.                                               *)
(***************************************************************************)
MaxRuns == 2            \* retests started during a behaviour

\* the request a run is waiting for
AwaitedBy(run) ==
    IF run.pc = "summary" THEN CfSummaryRequest
    ELSE CfRetestRequest(run.items[Len(run.results) + 1])

\* the place in flight of a request
PlaceOf(request) == CHOOSE i \in DOMAIN inFlight : inFlight[i] = request

\* the retest buttons can be used
CanStartRetest ==
    /\ page = "cloudflare"
    /\ location # "/login"
    /\ ~retestDialog.open
    /\ Len(runs) < MaxRuns

\* a handler up to its first await: the dialog is reset and opened, the
\* first retest request is sent
RetestRunStart(kind, selected) ==
    /\ retestDialog' = [ open |-> TRUE, results |-> <<>>, isRetesting |-> TRUE,
                         total |-> Len(selected), completed |-> 0 ]
    /\ runs' = Append(runs, [ kind |-> kind, items |-> selected, results |-> <<>>,
                              pc |-> "awaiting" ])
    /\ inFlight' = Append(inFlight, CfRetestRequest(selected[1]))
    /\ UNCHANGED <<page, backend, hookVars, pageVars, cfDataVars, cfSelectedRows, cfFilters,
                   cfSearchTerm, currentPage, retest, authToken, location, sessionValid,
                   lastStatus, flow>>

\* handleSingleRetest(vuln), from the retest button of a row
HandleSingleRetest ==
    /\ CanStartRetest
    /\ \E i \in DOMAIN paginatedVulnerabilities :
         RetestRunStart("single", <<paginatedVulnerabilities[i]>>)

\* handleBulkRetest, from the bulk bar
HandleBulkRetest ==
    /\ CanStartRetest
    /\ GetSelectedVulnerabilities # <<>>
    /\ RetestRunStart("bulk", GetSelectedVulnerabilities)

\* the dialog is dismissed (Escape, click outside, its X): setRetestDialogOpen(false)
DismissRetestDialog ==
    /\ retestDialog.open
    /\ retestDialog' = [ retestDialog EXCEPT !.open = FALSE ]
    /\ UNCHANGED <<page, backend, hookVars, pageVars, cfDataVars, cfSelectedRows, cfFilters,
                   cfSearchTerm, currentPage, runs, retest, apiVars, flow>>

\* a run after the await of retestVulnerability: the result joins the run's
\* results, the dialog is set from them, the finding's status is replaced if
\* (result.success && result.status); then the next request of the loop, or
\* after the last result setIsRetesting(false) and, for a bulk run,
\* setSelectedRows(new Set()), and the closing getSummary
RetestRunSettle(k, kind, outcome) ==
    LET run == runs[k]
        vuln == run.items[Len(run.results) + 1]
        result == CfRetestVulnerability(vuln.domain, vuln.vulnerability_name, outcome)
        results == Append(run.results, result)
        last == Len(results) = Len(run.items)
        changes == result.success /\ result.status # None /\ result.status # <<"">>
        goesOn == ~last \/ run.kind = "bulk" \/ changes
    IN
    /\ HandleResponse(kind)
    /\ retestDialog' = [ retestDialog EXCEPT !.results = results,
                                             !.completed = Len(results),
                                             !.isRetesting = IF last THEN FALSE ELSE @ ]
    /\ cfVulnerabilities' =
          IF changes
          THEN WithStatus(cfVulnerabilities, vuln.domain, vuln.vulnerability_name,
                          result.status[1])
          ELSE cfVulnerabilities
    /\ cfSelectedRows' = IF last /\ run.kind = "bulk" THEN {} ELSE cfSelectedRows
    /\ runs' = [ runs EXCEPT ![k] = [ run EXCEPT !.results = results,
                                                !.pc = IF ~last THEN "awaiting"
                                                       ELSE IF goesOn THEN "summary"
                                                       ELSE "done" ] ]
    /\ inFlight' = LET left == Remove(inFlight, PlaceOf(AwaitedBy(run))) IN
                   IF goesOn THEN Append(left, AwaitedBy(runs'[k])) ELSE left
    /\ UNCHANGED <<page, backend, hookVars, pageVars, cfBackend, cfLoading, cfError,
                   cfSummary, cfPending, cfFilters, cfSearchTerm, currentPage, retest, flow>>

\* the retest request of a run was answered with a body
RetestRunResolves ==
    \E k \in DOMAIN runs :
        /\ runs[k].pc = "awaiting"
        /\ "200" \in ResponseKinds(AwaitedBy(runs[k]))
        /\ \E outcome \in Resolved : RetestRunSettle(k, "200", outcome)

\* the retest request of a run rejected (retestVulnerability returns success: false)
RetestRunRejects ==
    \E k \in DOMAIN runs :
        /\ runs[k].pc = "awaiting"
        /\ \E kind \in ResponseKinds(AwaitedBy(runs[k])) :
             /\ Rejects(kind)
             /\ \E outcome \in Rejected :
                  /\ outcome.error = ResponseError(kind)
                  /\ RetestRunSettle(k, kind, outcome)

\* the closing getSummary of a run resolved (setSummary) or rejected (no catch)
RetestRunSummary ==
    \E k \in DOMAIN runs :
        /\ runs[k].pc = "summary"
        /\ \E kind \in ResponseKinds(CfSummaryRequest) :
             /\ HandleResponse(kind)
             /\ cfSummary' = IF kind = "200"
                             THEN TransformSummary(BackendSummary(cfBackend))
                             ELSE cfSummary
             /\ runs' = [ runs EXCEPT ![k].pc = IF kind = "200" THEN "done" ELSE "threw" ]
        /\ inFlight' = Remove(inFlight, PlaceOf(CfSummaryRequest))
        /\ UNCHANGED <<page, backend, hookVars, pageVars, cfBackend, cfVulnerabilities,
                       cfLoading, cfError, cfSelectedRows, cfPending, cfFilters, cfSearchTerm,
                       currentPage, retestDialog, retest, flow>>

InitRetestRuns ==
    /\ page = "cloudflare"
    /\ backend = <<>>
    /\ cfBackend \in SeqsUpTo(CfFlowRows, MaxCfFindings)
    /\ HookInit /\ PageInit /\ CloudflareInit /\ ApiInit
    /\ retest = NoRetest

NextRetestRuns ==
    \/ CfMount \/ CfFetchOk \/ ToggleSelectAll
    \/ HandleSingleRetest \/ HandleBulkRetest \/ DismissRetestDialog
    \/ RetestRunResolves \/ RetestRunRejects \/ RetestRunSummary

SpecRetestRuns == InitRetestRuns /\ [][NextRetestRuns]_vars

\* the run the dialog was opened for last
ShownRun == runs[Len(runs)]

\* C28: once a retest has been started, the dialog's retestCompleted lies
\* between 0 and retestTotal, its results are retestCompleted many and are
\* the results so far of the run it was opened for last, and when isRetesting
\* is false retestCompleted equals retestTotal.
C28_DialogShowsItsRun ==
    runs # <<>> =>
        /\ 0 <= retestDialog.completed
        /\ retestDialog.completed <= retestDialog.total
        /\ Len(retestDialog.results) = retestDialog.completed
        /\ retestDialog.results = ShownRun.results
        /\ ~retestDialog.isRetesting => retestDialog.completed = retestDialog.total

====
